---------------------------- MODULE Spec2Model ----------------------------
(***************************************************************************)
(* TradePrivate client: field arithmetic, commitments, nullifiers, the     *)
(* retry wrapper, and the account / order orchestrators running against    *)
(* the TradePrivate ledger contract.                                       *)
(*                                                                         *)
(* Three specifications share the variables:                               *)
(*   SpecCrypto   the pure commitment / nullifier functions                *)
(*   SpecOrder    PrivateOrderManager.submitPrivateOrder (two callers)     *)
(*   SpecAccount  PrivateAccountManager commit / reveal, storage, session  *)
(*                                                                         *)
(* Scaling.  The BN254 modulus does not fit TLC's integers, so the field   *)
(* is a small prime with the same shape as the real one: its top hex digit *)
(* is 3 and a hex string has HexWidth digits (64 in the code), so that a   *)
(* nonce whose top hex digit was cleared is below the modulus, as in the   *)
(* code.  Strings are tuples of one-character strings, hex and decimal     *)
(* strings are tuples of digits.                                           *)
(***************************************************************************)
EXTENDS Integers, Sequences, FiniteSets, TLC

(* ------------------------------ bounds -------------------------------- *)

\* index into FieldPrimes: which scaled-down modulus the model uses
FieldPick == 1
\* hex digits of a serialized field element (64 in the code)
HexWidth == 2
\* hex digits of an address (40 in the code)
AddrHexLen == 2
\* inputs of the pure functions are drawn from 0..MaxVal
MaxVal == 2
\* random nonces are drawn from 0..MaxNonce
MaxNonce == 1
\* disruptions per behaviour: request timeouts, provider failures, wallet
\* account switches, SDK teardowns, session expiries, page reloads
MaxFaults == 1
\* calls started per behaviour
MaxCalls == 3
\* block-height advances per behaviour
MaxAdvances == 2

(* --------------------------- field element ---------------------------- *)

FieldPrimes == <<53, 59, 61>>

\* ZK_CONFIG.FIELD_SIZE (scaled)
FIELD_SIZE == FieldPrimes[FieldPick]

\* new FieldElement(value): reduce into the field, lift a negative remainder
FieldElement(value) ==
    LET r == IF value >= 0 THEN value % FIELD_SIZE
             ELSE 0 - ((0 - value) % FIELD_SIZE)
    IN  IF r < 0 THEN r + FIELD_SIZE ELSE r

\* FieldElement.add
add(a, b) == FieldElement((a + FieldElement(b)) % FIELD_SIZE)

\* a plausible slip: the product left unreduced
mulUnreduced(a, b) == a * FieldElement(b)

\* FieldElement.mul
mul(a, b) == FieldElement((a * FieldElement(b)) % FIELD_SIZE)

\* a plausible slip: a negative difference left as it is
subWithoutLift(a, b) == a - FieldElement(b)

\* FieldElement.sub
sub(a, b) ==
    LET result == a - FieldElement(b)
    IN  FieldElement(IF result < 0 THEN result + FIELD_SIZE ELSE result)

RECURSIVE powLoop(_, _, _)
\* the loop of FieldElement.pow: square and multiply while exp > 0n
powLoop(result, base, exp) ==
    IF exp <= 0 THEN result
    ELSE powLoop(IF exp % 2 = 1 THEN (result * base) % FIELD_SIZE ELSE result,
                 (base * base) % FIELD_SIZE, exp \div 2)

\* FieldElement.pow
pow(a, exponent) == FieldElement(powLoop(1, a, exponent))

\* a plausible slip: the exponent of Fermat's theorem itself
invByFullExponent(a) == pow(a, FIELD_SIZE - 1)

\* FieldElement.inv
inv(a) == pow(a, FIELD_SIZE - 2)

RECURSIVE extendedGCD(_, _)
\* extendedGCD inside modInverse: <<gcd, x, y>>
extendedGCD(a, b) ==
    IF a = 0 THEN <<b, 0, 1>>
    ELSE LET r == extendedGCD(b % a, a)
         IN  <<r[1], r[3] - (b \div a) * r[2], r[2]>>

\* modInverse(a, m) for 0 <= a and FIELD_SIZE as m
modInverse(a, m) ==
    LET r == extendedGCD(a % m, m)
    IN  IF r[1] # 1 THEN <<"throws", "Modular inverse does not exist">>
        ELSE <<"ok", (FieldElement(r[2]) + m) % m>>

\* inverseFieldElement for a BigInt
inverseFieldElement(a) ==
    IF FieldElement(a) = 0 THEN <<"throws", "Cannot compute inverse of zero">>
    ELSE modInverse(FieldElement(a), FIELD_SIZE)

(* ------------------------ digit-string helpers ------------------------ *)

RECURSIVE ToDigits(_, _)
\* BigInt.prototype.toString(radix): most significant digit first, "0" for 0
ToDigits(n, radix) ==
    IF n < radix THEN <<n>>
    ELSE Append(ToDigits(n \div radix, radix), n % radix)

RECURSIVE FromDigits(_, _)
\* BigInt(string) for a digit string in the given radix
FromDigits(ds, radix) ==
    IF Len(ds) = 0 THEN 0
    ELSE FromDigits(SubSeq(ds, 1, Len(ds) - 1), radix) * radix + ds[Len(ds)]

\* String.prototype.padStart(width, '0'): never shortens
PadStart(ds, width) ==
    IF Len(ds) >= width THEN ds
    ELSE [i \in 1..(width - Len(ds)) |-> 0] \o ds

\* a plausible slip: the hex digits without the padding
toHexUnpadded(v) == ToDigits(v, 16)

\* FieldElement.toHex (without the "0x" prefix)
toHex(v) == PadStart(ToDigits(v, 16), HexWidth)

\* a plausible slip: parse the stored hex string as decimal
fromHexAsDecimal(hex) == FieldElement(FromDigits(hex, 10))

\* FieldElement.fromHex
fromHex(hex) == FieldElement(FromDigits(hex, 16))

\* FieldElement.toHex with its prefix: '0x' + value.toString(16).padStart(..)
toHexString(v) == [ prefix |-> "0x", digits |-> toHex(v) ]

\* FieldElement.fromHex of a string: the prefix is added when it is missing
fromHexString(hex) == fromHex(hex.digits)

\* FieldElement.fromBytes
fromBytes(bytes) == FieldElement(FromDigits(bytes, 256))

\* FieldElement.random for the bytes crypto.getRandomValues drew
random(bytes) == fromBytes([bytes EXCEPT ![1] = @ % 16])

\* BigInt.prototype.toString(): decimal
toDecimalString(n) == ToDigits(n, 10)

\* BigInt(decimalString)
parseBigInt(ds) == FromDigits(ds, 10)

(* ----------------------------- strings -------------------------------- *)

\* String.prototype.includes: pat occurs as a contiguous, case-sensitive run
Includes(msg, pat) ==
    \E i \in 1..(Len(msg) - Len(pat) + 1) :
        SubSeq(msg, i, i + Len(pat) - 1) = pat

(* ---------------------------- order data ------------------------------ *)

\* String(n) for a non-negative integer, as ASCII codes
NumberToString(n) == [i \in 1..Len(ToDigits(n, 10)) |-> 48 + ToDigits(n, 10)[i]]

\* "0"
StrZero == <<48>>

\* ethers.parseUnits(sanitizeAmount(amount), decimals).toString() for a whole
\* amount: the digits of the amount followed by `decimals` zeros, "0" for 0
parseUnits(amount, decimals) ==
    IF amount = 0 THEN StrZero
    ELSE NumberToString(amount) \o [i \in 1..decimals |-> 48]

\* CONSTANTS.MAX_LEVERAGE
MAX_LEVERAGE == 50

Min(a, b) == IF a < b THEN a ELSE b

\* "0x" followed by the address's hex digits (ethers.getAddress keeps the digits)
AddressString(addr) ==
    <<48, 120>> \o [i \in 1..Len(addr) |->
                      IF addr[i] < 10 THEN 48 + addr[i] ELSE 87 + addr[i]]

\* PrivateOrderManager.formatOrderData
formatOrderData(params) ==
    [ market       |-> AddressString(params.market),
      size         |-> parseUnits(params.size, 6),
      price        |-> IF params.price # 0 THEN parseUnits(params.price, 18)
                       ELSE parseUnits(0, 18),
      isLong       |-> params.isLong,
      isReduceOnly |-> params.isReduceOnly,
      orderType    |-> params.orderType,
      leverage     |-> Min(MAX_LEVERAGE,
                           IF params.leverage # 0 THEN params.leverage ELSE 1),
      tpPrice      |-> IF params.tpPrice # 0 THEN parseUnits(params.tpPrice, 18)
                       ELSE parseUnits(0, 18),
      slPrice      |-> IF params.slPrice # 0 THEN parseUnits(params.slPrice, 18)
                       ELSE parseUnits(0, 18) ]

RECURSIVE Join(_)
\* Array.prototype.join('|')
Join(parts) ==
    IF Len(parts) = 1 THEN parts[1]
    ELSE parts[1] \o <<124>> \o Join(Tail(parts))

\* CommitmentGenerator.serializeOrderData: isReduceOnly is not among the parts
serializeOrderData(orderData) ==
    Join(<< orderData.market,
            orderData.size,
            orderData.price,
            NumberToString(orderData.orderType),
            IF orderData.isLong THEN NumberToString(1) ELSE NumberToString(0),
            NumberToString(IF orderData.leverage # 0 THEN orderData.leverage ELSE 1),
            orderData.tpPrice,
            orderData.slPrice >>)

RECURSIVE hashLoop(_, _)
\* the loop of hashOrderData run over `bytes` from the value `hash`: for each
\* byte in order, hash = hash.mul(31).add(byte).  TLC passes arguments
\* unevaluated and nests one evaluation per byte, so the range is split in two
\* halves run one after the other and `hash` is evaluated on entry (the first
\* test, which a field element never fails)
hashLoop(hash, bytes) ==
    IF hash \notin 0..(FIELD_SIZE - 1) THEN hash
    ELSE IF Len(bytes) = 0 THEN hash
    ELSE IF Len(bytes) = 1 THEN add(mul(hash, 31), bytes[1])
    ELSE LET half == Len(bytes) \div 2
         IN  hashLoop(hashLoop(hash, SubSeq(bytes, 1, half)),
                      SubSeq(bytes, half + 1, Len(bytes)))

\* CommitmentGenerator.hashOrderData: the loop over the UTF-8 bytes, from 1
hashOrderData(data) == hashLoop(FieldElement(1), data)

(* ---------------------- commitments and nullifiers -------------------- *)

\* CommitmentGenerator.generateAccountCommitment
generateAccountCommitment(privateKey, nonce) ==
    mul(add(FieldElement(privateKey), FieldElement(nonce)), 7)

\* CommitmentGenerator.generateOrderCommitment
generateOrderCommitment(orderData, nonce) ==
    add(hashOrderData(serializeOrderData(orderData)), FieldElement(nonce))

\* NullifierGenerator.generateOrderNullifier: returns combined.toHex()
generateOrderNullifier(privateKey, orderCommitment, nonce) ==
    toHex(add(add(FieldElement(privateKey),
                  mul(FieldElement(orderCommitment), 2)),
              mul(FieldElement(nonce), 3)))

\* js-sha3 keccak256, taken as collision free: the digest stands for its preimage
keccak256(bytes) == <<"keccak256", bytes>>

\* CommitmentGenerator.generateCommitHash for a FieldElement commitment, a
\* bigint nonce and an address string
generateCommitHash(commitment, nonce, address) ==
    keccak256(toHex(commitment)
              \o PadStart(ToDigits(nonce, 16), HexWidth)
              \o PadStart(address, AddrHexLen))

(* --------------------------- error messages --------------------------- *)

\* 'network'
KwNetwork ==
    <<"n", "e", "t", "w", "o", "r", "k">>

\* 'timeout'
KwTimeout ==
    <<"t", "i", "m", "e", "o", "u", "t">>

\* 'ETIMEDOUT'
KwETIMEDOUT ==
    <<"E", "T", "I", "M", "E", "D", "O", "U", "T">>

\* 'ECONNREFUSED'
KwECONNREFUSED ==
    <<"E", "C", "O", "N", "N", "R", "E", "F", "U", "S", "E", "D">>

\* 'nonce'
KwNonce ==
    <<"n", "o", "n", "c", "e">>

\* 'replacement fee too low'
KwReplacementFee ==
    <<"r", "e", "p", "l", "a", "c", "e", "m", "e", "n", "t", " ", "f",
      "e", "e", " ", "t", "o", "o", " ", "l", "o", "w">>

\* 'rate limit'
KwRateLimit ==
    <<"r", "a", "t", "e", " ", "l", "i", "m", "i", "t">>

\* '429'
Kw429 ==
    <<"4", "2", "9">>

\* 'user rejected'
KwUserRejected ==
    <<"u", "s", "e", "r", " ", "r", "e", "j", "e", "c", "t", "e", "d">>

\* 'User denied'
KwUserDenied ==
    <<"U", "s", "e", "r", " ", "d", "e", "n", "i", "e", "d">>

\* 'insufficient funds'
KwInsufficientFunds ==
    <<"i", "n", "s", "u", "f", "f", "i", "c", "i", "e", "n", "t", " ",
      "f", "u", "n", "d", "s">>

\* 'InsufficientBalance'
KwInsufficientBalance ==
    <<"I", "n", "s", "u", "f", "f", "i", "c", "i", "e", "n", "t", "B",
      "a", "l", "a", "n", "c", "e">>

\* 'revert'
KwRevert ==
    <<"r", "e", "v", "e", "r", "t">>

\* 'NullifierAlreadyUsed'
KwNullifierAlreadyUsed ==
    <<"N", "u", "l", "l", "i", "f", "i", "e", "r", "A", "l", "r", "e",
      "a", "d", "y", "U", "s", "e", "d">>

\* 'AccountDoesNotExist'
KwAccountDoesNotExist ==
    <<"A", "c", "c", "o", "u", "n", "t", "D", "o", "e", "s", "N", "o",
      "t", "E", "x", "i", "s", "t">>

\* 'InvalidProof'
KwInvalidProof ==
    <<"I", "n", "v", "a", "l", "i", "d", "P", "r", "o", "o", "f">>

\* 'proof'
KwProof ==
    <<"p", "r", "o", "o", "f">>

\* 'nullifier'
KwNullifier ==
    <<"n", "u", "l", "l", "i", "f", "i", "e", "r">>

\* orderManager.js:53, thrown when the pre-submission check reports the nullifier used
MsgNullifierPrecheck ==
    <<"O", "r", "d", "e", "r", " ", "n", "u", "l", "l", "i", "f", "i",
      "e", "r", " ", "a", "l", "r", "e", "a", "d", "y", " ", "u", "s",
      "e", "d", " ", "-", " ", "p", "l", "e", "a", "s", "e", " ", "t",
      "r", "y", " ", "a", "g", "a", "i", "n">>

\* a provider failure: the request timed out
MsgTimeout ==
    <<"t", "i", "m", "e", "o", "u", "t">>

\* the ledger's custom error NullifierAlreadyUsed as the provider reports it
MsgRevertUsed ==
    <<"e", "x", "e", "c", "u", "t", "i", "o", "n", " ", "r", "e", "v",
      "e", "r", "t", "e", "d", ":", " ", "N", "u", "l", "l", "i", "f",
      "i", "e", "r", "A", "l", "r", "e", "a", "d", "y", "U", "s", "e",
      "d", "(", ")">>

\* the same revert reported with the failed transaction's fields
MsgRevertUsedTx ==
    <<"N", "u", "l", "l", "i", "f", "i", "e", "r", "A", "l", "r", "e",
      "a", "d", "y", "U", "s", "e", "d", "(", ")", " ", "(", "t", "r",
      "a", "n", "s", "a", "c", "t", "i", "o", "n", " ", "n", "o", "n",
      "c", "e", " ", "7", ")">>

\* the ledger's custom error AccountDoesNotExist
MsgRevertNoAccount ==
    <<"e", "x", "e", "c", "u", "t", "i", "o", "n", " ", "r", "e", "v",
      "e", "r", "t", "e", "d", ":", " ", "A", "c", "c", "o", "u", "n",
      "t", "D", "o", "e", "s", "N", "o", "t", "E", "x", "i", "s", "t",
      "(", ")">>

\* accountManager.js:114, the reveal delay has not elapsed (the count is left out)
MsgMustWait ==
    <<"M", "u", "s", "t", " ", "w", "a", "i", "t", " ", "m", "o", "r",
      "e", " ", "b", "l", "o", "c", "k", "s">>

\* a TypeError: a field of this.pendingCommit read while it is null
MsgTypeError ==
    <<"C", "a", "n", "n", "o", "t", " ", "r", "e", "a", "d", " ", "p",
      "r", "o", "p", "e", "r", "t", "i", "e", "s", " ", "o", "f", " ",
      "n", "u", "l", "l">>

\* the ledger's require(cr.committer == msg.sender)
MsgRevertCommitter ==
    <<"e", "x", "e", "c", "u", "t", "i", "o", "n", " ", "r", "e", "v",
      "e", "r", "t", "e", "d", ":", " ", "I", "n", "v", "a", "l", "i",
      "d", " ", "c", "o", "m", "m", "i", "t", "t", "e", "r">>

\* the ledger's require(block.number >= cr.commitBlock + COMMIT_REVEAL_DELAY)
MsgRevertTooEarly ==
    <<"e", "x", "e", "c", "u", "t", "i", "o", "n", " ", "r", "e", "v",
      "e", "r", "t", "e", "d", ":", " ", "T", "o", "o", " ", "e", "a",
      "r", "l", "y">>

\* the ledger's require(!tradingAccounts[commitment])
MsgRevertExists ==
    <<"e", "x", "e", "c", "u", "t", "i", "o", "n", " ", "r", "e", "v",
      "e", "r", "t", "e", "d", ":", " ", "A", "c", "c", "o", "u", "n",
      "t", " ", "a", "l", "r", "e", "a", "d", "y", " ", "e", "x", "i",
      "s", "t", "s">>

\* the ledger's require on commitTradingAccount
MsgRevertCommitExists ==
    <<"e", "x", "e", "c", "u", "t", "i", "o", "n", " ", "r", "e", "v",
      "e", "r", "t", "e", "d", ":", " ", "C", "o", "m", "m", "i", "t",
      " ", "a", "l", "r", "e", "a", "d", "y", " ", "e", "x", "i", "s",
      "t", "s">>

(* ----------------------------- ErrorHandler --------------------------- *)

\* withRetry's default maxRetries
maxRetries == 3

\* TradePrivate.ORDER_EXPIRATION, in blocks
ORDER_EXPIRATION == 7200

\* ErrorHandler.isRetryableError: the checks run in this order, first hit wins
isRetryableError(message) ==
    IF \/ Includes(message, KwNetwork) \/ Includes(message, KwTimeout)
       \/ Includes(message, KwETIMEDOUT) \/ Includes(message, KwECONNREFUSED)
    THEN TRUE
    ELSE IF Includes(message, KwNonce) \/ Includes(message, KwReplacementFee)
    THEN TRUE
    ELSE IF Includes(message, KwRateLimit) \/ Includes(message, Kw429)
    THEN TRUE
    ELSE IF Includes(message, KwUserRejected) \/ Includes(message, KwUserDenied)
    THEN FALSE
    ELSE IF \/ Includes(message, KwInsufficientFunds)
            \/ Includes(message, KwInsufficientBalance)
    THEN FALSE
    ELSE IF \/ Includes(message, KwRevert)
            \/ Includes(message, KwNullifierAlreadyUsed)
            \/ Includes(message, KwAccountDoesNotExist)
    THEN FALSE
    ELSE IF Includes(message, KwInvalidProof) \/ Includes(message, KwProof)
    THEN FALSE
    ELSE TRUE

\* the shouldRetry option submitPrivateOrder passes to withRetry
orderShouldRetry(message) ==
    IF Includes(message, KwNullifier) THEN FALSE
    ELSE isRetryableError(message)

\* withRetry's catch block at attempt i: rethrow, or go round again
retryRethrows(i, retryable) == i = maxRetries \/ ~retryable

(* ------------------------------- state -------------------------------- *)

VARIABLES
    \* pure functions: the inputs drawn, and the function applied with its results
    cin, cout,
    \* the ledger (TradePrivate contract)
    blockNumber, commitReveals, tradingAccounts, usedNullifiers, privateOrders,
    \* the wallet: the signer's address
    signer,
    \* PrivateAccountManager fields and the key manager's private key
    privateKey, accountCommitment, accountNonce, pendingCommit,
    \* browser storage: sessionStorage['pendingCommit'], the stored account record
    storedPendingCommit, storedAccount,
    \* TradePrivateSDK.initialized
    initialized,
    \* the asynchronous createAccount / revealAccount calls in flight
    accountCalls,
    \* PrivateOrderManager.pendingOrders and the submitPrivateOrder calls in flight
    pendingOrders, orderCalls,
    \* history: the commits createAccount submitted, the latest reveal
    \* transaction sent, the nullifiers of the order transactions sent, and the
    \* counters that bound a behaviour
    \* history: whether pendingCommit was read back by loadPendingCommit
    pendingLoaded,
    submittedCommits, lastReveal, submitCalls, faults, started, advances,
    \* browser storage: the IndexedDB object stores and sessionStorage
    idb, session,
    \* the HDWallet instance, and the fields of PrivateKeyManager other than
    \* privateKey
    hd, km,
    \* the latest call of a storage or wallet method with its outcome; history:
    \* the password and seed of the latest completed saveToStorage
    walletCall, saved,
    \* the keys the HD wallet has handed out, and the accounts derived since
    \* the wallet was last cleared
    hdLog,
    \* the CircuitBreaker of TradePrivateSDKSecure; the clock, the executions
    \* in flight and the history of the executions that ended
    breaker, breakerRun

cryptoVars == <<cin, cout>>
ledgerVars == <<blockNumber, commitReveals, tradingAccounts, usedNullifiers,
                privateOrders>>
accountVars == <<privateKey, accountCommitment, accountNonce, pendingCommit,
                 storedPendingCommit, storedAccount, initialized, accountCalls,
                 signer, submittedCommits, lastReveal, advances, pendingLoaded>>
orderVars == <<pendingOrders, orderCalls, submitCalls>>
walletVars == <<idb, session, hd, km, walletCall, saved, hdLog>>
sdkVars == <<breaker, breakerRun>>
vars == <<cryptoVars, ledgerVars, accountVars, orderVars, walletVars, sdkVars,
          faults, started>>

\* null / undefined, and a present value x; The(o) is the value of a present o
None == <<>>
Some(x) == <<x>>
The(o) == o[1]

\* the object stores of IndexedDB by database and key, empty
EmptyIdb ==
    [ accounts |-> None, orders |-> None, keys |-> None, seed |-> None,
      metadata |-> None ]

\* sessionStorage['tradePrivateAccount'], ['privateOrderHistory'] and
\* [CONSTANTS.STORAGE_KEYS.ACCOUNT_DATA], empty
EmptySession == [ account |-> None, orders |-> None, keys |-> None ]

\* new HDWallet()
NewHDWallet ==
    [ seed |-> None, masterKey |-> None, accounts |-> {},
      currentAccountIndex |-> 0, initialized |-> FALSE ]

\* new PrivateKeyManager(), privateKey apart
NewKeyManager ==
    [ tradingPublicKey |-> None, encryptionKeys |-> None, accountIndex |-> 0,
      isHDMode |-> FALSE ]

NoWalletCall == [ name |-> "none" ]

\* nothing derived yet
EmptyLog == [ derived |-> {}, sinceDestroy |-> {} ]

\* CircuitBreaker's defaults: options.threshold || 5, options.timeout || 60000
threshold == 5
timeout == 60000

\* the slots of the executions that can be in flight at once
BreakerSlots == 1..2

\* new CircuitBreaker()
NewCircuitBreaker ==
    [ failures |-> 0, lastFailureTime |-> None, state |-> "CLOSED" ]

\* the clock at 0, nothing in flight, nothing executed yet
NewBreakerRun ==
    [ now |-> 0, ticks |-> 0, executions |-> 0, invocations |-> 0,
      calls |-> [c \in BreakerSlots |-> "idle"], streak |-> 0,
      last |-> [ kind |-> "none", stateBefore |-> "CLOSED" ] ]

BreakerRest == breaker = NewCircuitBreaker /\ breakerRun = NewBreakerRun

WalletRest ==
    /\ idb = EmptyIdb /\ session = EmptySession
    /\ hd = NewHDWallet /\ km = NewKeyManager
    /\ walletCall = NoWalletCall /\ saved = None /\ hdLog = EmptyLog

\* an address whose hex digits are all k
Address(k) == [i \in 1..AddrHexLen |-> k]

Addresses == {Address(10), Address(11)}

(* --------------------- pure functions: SpecCrypto --------------------- *)

\* order parameters that pass InputValidator.validateOrderParams
OrderParams ==
    { [ market |-> Address(12), size |-> s, price |-> 0, isLong |-> TRUE,
        isReduceOnly |-> r, orderType |-> 0, leverage |-> 2,
        tpPrice |-> 0, slPrice |-> 0 ] : s \in {101, 102}, r \in BOOLEAN }

CryptoInput ==
    [ privateKey : 0..MaxVal, orderCommitment : 0..MaxVal, nonce : 0..MaxVal,
      orderData : {formatOrderData(o) : o \in OrderParams} ]

CryptoRest == cin = None /\ cout = None

InitCrypto ==
    /\ cin \in [a : CryptoInput, b : CryptoInput]
    /\ cout = None

cryptoOthers == <<ledgerVars, accountVars, orderVars, walletVars, sdkVars,
                  faults, started>>

\* both inputs through NullifierGenerator.generateOrderNullifier
ApplyOrderNullifier ==
    /\ cout = None
    /\ cout' = Some([ fn |-> "orderNullifier",
                      a |-> generateOrderNullifier(cin.a.privateKey,
                                cin.a.orderCommitment, cin.a.nonce),
                      b |-> generateOrderNullifier(cin.b.privateKey,
                                cin.b.orderCommitment, cin.b.nonce) ])
    /\ UNCHANGED <<cin, cryptoOthers>>

\* both inputs through CommitmentGenerator.generateAccountCommitment
ApplyAccountCommitment ==
    /\ cout = None
    /\ cout' = Some([ fn |-> "accountCommitment",
                      a |-> generateAccountCommitment(cin.a.privateKey, cin.a.nonce),
                      b |-> generateAccountCommitment(cin.b.privateKey, cin.b.nonce) ])
    /\ UNCHANGED <<cin, cryptoOthers>>

\* both inputs through CommitmentGenerator.generateOrderCommitment
ApplyOrderCommitment ==
    /\ cout = None
    /\ cout' = Some([ fn |-> "orderCommitment",
                      a |-> generateOrderCommitment(cin.a.orderData, cin.a.nonce),
                      b |-> generateOrderCommitment(cin.b.orderData, cin.b.nonce) ])
    /\ UNCHANGED <<cin, cryptoOthers>>

(* --------------------------- keeper selection ------------------------- *)

\* keepers on the ledger's activeKeeperList per behaviour
MaxKeepers == 3
\* the sample bound of getActiveKeeperPublicKey, Math.min(10, keeperCount),
\* scaled down so that a list can exceed it
KeeperSampleLimit == 2
\* reputation scores are drawn from {0, MaxReputation}
MaxReputation == 2

\* what TradePrivate.keepers(address) returns, without the public key
KeeperInfo ==
    [ isActive : BOOLEAN, isSlashed : BOOLEAN,
      successfulBatches : 0..1, failedBatches : 0..1,
      reputationScore : {0, MaxReputation} ]

\* the ledger's activeKeeperList with the keepers' records; the keeper listed
\* at position i has public key i
KeeperLists == UNION { [1..n -> KeeperInfo] : n \in 0..MaxKeepers }

\* 'No active keepers available', orderManager.js:155
MsgNoActiveKeepers ==
    <<"N", "o", " ", "a", "c", "t", "i", "v", "e", " ", "k", "e", "e",
      "p", "e", "r", "s", " ", "a", "v", "a", "i", "l", "a", "b", "l",
      "e">>
\* 'No suitable keeper found', orderManager.js:198
MsgNoSuitableKeeper ==
    <<"N", "o", " ", "s", "u", "i", "t", "a", "b", "l", "e", " ", "k",
      "e", "e", "p", "e", "r", " ", "f", "o", "u", "n", "d">>

\* score = Number(reputationScore) * successRate as the fraction <<num, den>>,
\* successRate = successful / total, 0.5 with no history
keeperScore(keeper) ==
    LET totalBatches == keeper.successfulBatches + keeper.failedBatches
    IN  IF totalBatches > 0
        THEN <<keeper.reputationScore * keeper.successfulBatches, totalBatches>>
        ELSE <<keeper.reputationScore, 2>>

\* score > bestScore on fractions with positive denominators
scoreGreater(score, bestScore) ==
    score[1] * bestScore[2] > bestScore[1] * score[2]

RECURSIVE selectKeeper(_, _, _, _)
\* the loop over keeperAddresses, lines 169-195: best is <<bestKeeper,
\* bestScore>>, bestKeeper the position of the keeper or 0 for null
selectKeeper(keepers, count, i, best) ==
    IF i > count THEN best
    ELSE LET keeper == keepers[i]
             score == keeperScore(keeper)
         IN  IF ~keeper.isActive \/ keeper.isSlashed
             THEN selectKeeper(keepers, count, i + 1, best)
             ELSE IF scoreGreater(score, best[2])
             THEN selectKeeper(keepers, count, i + 1, <<i, score>>)
             ELSE selectKeeper(keepers, count, i + 1, best)

\* PrivateOrderManager.getActiveKeeperPublicKey with keeperCount the length of
\* the list and every keepers(address) query answered: <<"key", publicKey>>
\* or <<"error", message>>
getActiveKeeperPublicKey(keepers) ==
    LET keeperCount == Len(keepers)
        sampled == Min(KeeperSampleLimit, keeperCount)
        best == selectKeeper(keepers, sampled, 1, <<0, <<0, 1>>>>)
    IN  IF keeperCount = 0 THEN <<"error", MsgNoActiveKeepers>>
        ELSE IF best[1] = 0 THEN <<"error", MsgNoSuitableKeeper>>
        ELSE <<"key", best[1]>>

(* --------------------------- order encryption ------------------------- *)

\* ZK_CONFIG.ENCRYPTED_ORDER_SIZE: the size submitPrivateOrder checks for
ENCRYPTED_ORDER_SIZE == 256

\* the ledger's constant ENCRYPTED_ORDER_SIZE: the size submitOrderPrivate
\* requires of encryptedOrder
LedgerEncryptedOrderSize == 512

\* the TypeError of calling OrderEncryption.encryptOrder: class OrderEncryption
\* declares a constructor and instance methods and no static member, so the
\* property read yields undefined
MsgNotAFunction ==
    <<"O", "r", "d", "e", "r", "E", "n", "c", "r", "y", "p", "t", "i",
      "o", "n", ".", "e", "n", "c", "r", "y", "p", "t", "O", "r", "d",
      "e", "r", " ", "i", "s", " ", "n", "o", "t", " ", "a", " ", "f",
      "u", "n", "c", "t", "i", "o", "n">>

\* orderManager.js:67 for an encryptedOrder without a length
MsgInvalidSize ==
    <<"I", "n", "v", "a", "l", "i", "d", " ", "e", "n", "c", "r", "y",
      "p", "t", "e", "d", " ", "o", "r", "d", "e", "r", " ", "s", "i",
      "z", "e", ":", " ", "u", "n", "d", "e", "f", "i", "n", "e", "d">>

\* OrderEncryption.encryptOrder(orderData, keeperPubKey) as orderManager.js:60
\* calls it: <<"throws", message>>, or <<"bytes", length>> for a byte array
encryptOrder(orderData, keeperPubKey) == <<"throws", MsgNotAFunction>>

(* ------------------- order submission: SpecOrder ---------------------- *)

\* the concurrent callers of submitPrivateOrder; a caller takes the lowest
\* free slot
Callers == {1, 2}

\* the orders the callers submit
OrderChoices == {o \in OrderParams : ~o.isReduceOnly}

\* crypto.getRandomValues with the top hex digit cleared (a sample of the range)
NonceSpace == 0..MaxNonce

\* a call's record: where it stands (pc), its argument, the attempt number i of
\* withRetry's loop, the values the current attempt made, the ledger's answer to
\* usedNullifiers and what isNullifierUsed returned, the last error,
\* the keeper's public key and the outcome of the encryption; and as history
\* the values of the first attempt and whether a nullifier-used outcome was met
IdleOrderCall ==
    [ pc |-> "idle", params |-> None, i |-> 0, made |-> None,
      ledgerAnswer |-> "none", isUsed |-> FALSE, error |-> None,
      keeperPubKey |-> None, encrypted |-> None,
      first |-> None, usedSeen |-> FALSE ]

OrderRest ==
    /\ pendingOrders = {}
    /\ orderCalls = [c \in Callers |-> IdleOrderCall]
    /\ submitCalls = {}

\* NullifierGenerator.isNullifierUsed: the ledger's answer, or false when the
\* call to usedNullifiers threw
isNullifierUsed(answer) ==
    IF answer = "threw" THEN FALSE ELSE answer = "true"

\* withRetry's catch block for submitPrivateOrder: rethrow or start the next attempt
OrderCatch(call, message) ==
    IF retryRethrows(call.i, orderShouldRetry(message))
    THEN [call EXCEPT !.pc = "thrown", !.error = message]
    ELSE [call EXCEPT !.pc = "attempt", !.i = call.i + 1, !.error = message]

orderOthers == <<cryptoVars, accountVars, walletVars, sdkVars, blockNumber,
                 commitReveals, tradingAccounts, privateOrders>>

\* submitPrivateOrder up to the call of withRetry (lines 23-31)
OrderStart(c, params) ==
    /\ orderCalls[c].pc = "idle"
    /\ \A d \in Callers : d < c => orderCalls[d].pc # "idle"
    /\ started < MaxCalls
    /\ accountCommitment # None
    /\ orderCalls' = [orderCalls EXCEPT ![c] =
          [IdleOrderCall EXCEPT !.pc = "attempt", !.params = Some(params)]]
    /\ started' = started + 1
    /\ UNCHANGED <<orderOthers, usedNullifiers, pendingOrders, submitCalls, faults>>

\* one attempt, lines 32-50: nonce, commitment, nullifier, then the usage query
OrderGenerate(c, nonce) ==
    LET call == orderCalls[c]
        commitment == generateOrderCommitment(formatOrderData(The(call.params)),
                                              nonce)
        nullifier == generateOrderNullifier(The(privateKey), commitment, nonce)
        made == [ orderNonce |-> nonce, orderCommitment |-> commitment,
                  nullifier |-> nullifier ]
    IN  /\ call.pc = "attempt"
        /\ orderCalls' = [orderCalls EXCEPT ![c] =
              [call EXCEPT !.pc = "checking", !.made = Some(made),
                           !.ledgerAnswer = "none", !.isUsed = FALSE,
                           !.keeperPubKey = None, !.encrypted = None,
                           !.first = IF call.first = None THEN Some(made)
                                     ELSE call.first]]
        /\ UNCHANGED <<orderOthers, usedNullifiers, pendingOrders, submitCalls,
                       faults, started>>

\* lines 50-54 once isNullifierUsed has returned for the ledger's answer
OrderAfterCheck(call, answer) ==
    LET isUsed == isNullifierUsed(answer)
        checked == [call EXCEPT !.ledgerAnswer = answer, !.isUsed = isUsed]
    IN  IF isUsed
        THEN OrderCatch([checked EXCEPT !.usedSeen = TRUE], MsgNullifierPrecheck)
        ELSE [checked EXCEPT !.pc = "keeper"]

\* contract.usedNullifiers answers
OrderChecked(c) ==
    LET call == orderCalls[c]
        answer == IF The(call.made).nullifier \in usedNullifiers
                  THEN "true" ELSE "false"
    IN  /\ call.pc = "checking"
        /\ orderCalls' = [orderCalls EXCEPT ![c] = OrderAfterCheck(call, answer)]
        /\ UNCHANGED <<orderOthers, usedNullifiers, pendingOrders, submitCalls,
                       faults, started>>

\* contract.usedNullifiers throws (a provider failure)
OrderCheckThrows(c) ==
    LET call == orderCalls[c]
    IN  /\ call.pc = "checking"
        /\ faults < MaxFaults
        /\ faults' = faults + 1
        /\ orderCalls' = [orderCalls EXCEPT ![c] = OrderAfterCheck(call, "threw")]
        /\ UNCHANGED <<orderOthers, usedNullifiers, pendingOrders, submitCalls,
                       started>>

\* the ledger's keeper registry while orders are submitted: one active keeper
\* in good standing
LedgerKeepers ==
    << [ isActive |-> TRUE, isSlashed |-> FALSE, successfulBatches |-> 1,
         failedBatches |-> 0, reputationScore |-> MaxReputation ] >>

\* line 57: the keeper's public key, or the error of getActiveKeeperPublicKey
OrderSelectKeeper(c) ==
    LET call == orderCalls[c]
        selected == getActiveKeeperPublicKey(LedgerKeepers)
    IN  /\ call.pc = "keeper"
        /\ orderCalls' = [orderCalls EXCEPT ![c] =
              IF selected[1] = "error"
              THEN OrderCatch(call, selected[2])
              ELSE [call EXCEPT !.pc = "encrypt",
                                !.keeperPubKey = Some(selected[2])]]
        /\ UNCHANGED <<orderOthers, usedNullifiers, pendingOrders, submitCalls,
                       faults, started>>

\* lines 60-68: the encryption and the size check
OrderEncrypt(c) ==
    LET call == orderCalls[c]
        outcome == encryptOrder(formatOrderData(The(call.params)),
                                The(call.keeperPubKey))
        tried == [call EXCEPT !.encrypted = Some(outcome)]
    IN  /\ call.pc = "encrypt"
        /\ orderCalls' = [orderCalls EXCEPT ![c] =
              IF outcome[1] = "throws"
              THEN OrderCatch(tried, outcome[2])
              ELSE IF outcome[2] # ENCRYPTED_ORDER_SIZE
              THEN OrderCatch(tried, MsgInvalidSize)
              ELSE [tried EXCEPT !.pc = "submit"]]
        /\ UNCHANGED <<orderOthers, usedNullifiers, pendingOrders, submitCalls,
                       faults, started>>

\* the nullifiers of the account's orders
OrderNullifiers(key) ==
    { generateOrderNullifier(key,
          generateOrderCommitment(formatOrderData(o), n), n) :
        o \in OrderChoices, n \in NonceSpace }

\* TradePrivate.submitOrderPrivate called by another session of the account:
\* the ledger marks the nullifier used
LedgerSubmitOrder(nullifier) ==
    /\ nullifier \notin usedNullifiers
    /\ faults < MaxFaults
    /\ faults' = faults + 1
    /\ usedNullifiers' = usedNullifiers \cup {nullifier}
    /\ UNCHANGED <<orderOthers, orderCalls, pendingOrders, submitCalls, started>>

\* lines 70-93 against TradePrivate.submitOrderPrivate: the ledger accepts
OrderSubmitAccepted(c) ==
    LET call == orderCalls[c]
        nullifier == The(call.made).nullifier
    IN  /\ call.pc = "submit"
        /\ nullifier \notin usedNullifiers
        /\ toHex(The(accountCommitment)) \in tradingAccounts
        /\ usedNullifiers' = usedNullifiers \cup {nullifier}
        /\ privateOrders' =
              {o \in privateOrders : o.nullifier # nullifier} \cup
              {[ nullifier |-> nullifier,
                 expirationBlock |-> blockNumber + ORDER_EXPIRATION ]}
        /\ submitCalls' = submitCalls \cup {nullifier}
        /\ orderCalls' = [orderCalls EXCEPT ![c] = [call EXCEPT !.pc = "waiting"]]
        /\ UNCHANGED <<cryptoVars, accountVars, walletVars, sdkVars, blockNumber,
                       commitReveals, tradingAccounts, pendingOrders, faults,
                       started>>

\* lines 87-93: the ledger reverts with NullifierAlreadyUsed, which the provider
\* reports in one of its wordings
OrderSubmitReverts(c, message) ==
    LET call == orderCalls[c]
        nullifier == The(call.made).nullifier
    IN  /\ call.pc = "submit"
        /\ nullifier \in usedNullifiers
        /\ submitCalls' = submitCalls \cup {nullifier}
        /\ orderCalls' = [orderCalls EXCEPT ![c] =
              OrderCatch([call EXCEPT !.usedSeen = TRUE], message)]
        /\ UNCHANGED <<orderOthers, usedNullifiers, pendingOrders, faults, started>>

\* lines 87-95: the request or the wait for the receipt times out
OrderSubmitTimeout(c) ==
    LET call == orderCalls[c]
    IN  /\ call.pc \in {"submit", "waiting"}
        /\ faults < MaxFaults
        /\ faults' = faults + 1
        /\ orderCalls' = [orderCalls EXCEPT ![c] = OrderCatch(call, MsgTimeout)]
        /\ UNCHANGED <<orderOthers, usedNullifiers, pendingOrders, submitCalls,
                       started>>

\* lines 95-118: the receipt arrives, the order is stored and returned
OrderReceipt(c) ==
    LET call == orderCalls[c]
    IN  /\ call.pc = "waiting"
        /\ pendingOrders' = pendingOrders \cup {The(call.made).nullifier}
        /\ orderCalls' = [orderCalls EXCEPT ![c] = [call EXCEPT !.pc = "returned"]]
        /\ UNCHANGED <<orderOthers, usedNullifiers, submitCalls, faults, started>>

\* the caller takes the result or the error; the slot is free again
OrderReturn(c) ==
    /\ orderCalls[c].pc \in {"returned", "thrown"}
    /\ orderCalls' = [orderCalls EXCEPT ![c] = IdleOrderCall]
    /\ UNCHANGED <<orderOthers, usedNullifiers, pendingOrders, submitCalls,
                   faults, started>>

(* ------------------ account commit / reveal: SpecAccount -------------- *)

\* CONSTANTS.COMMIT_REVEAL_DELAY, and the ledger's constant of the same name
COMMIT_REVEAL_DELAY == 240

\* the createAccount / revealAccount calls that can be in flight together; a
\* call takes the lowest free slot
AccountSlots == {1, 2}

\* the trading key the key manager holds once loaded
TradingKey == 5

\* a call's record: the method (op), where it stands (pc), the attempt number i
\* of withRetry's loop, the address it was called with, what createAccount made
\* in the current attempt, the block height revealAccount read, the last error
IdleAccountCall ==
    [ op |-> "none", pc |-> "idle", i |-> 0, userAddress |-> None,
      made |-> None, currentBlock |-> 0, error |-> None ]

\* withRetry's catch block with shouldRetry = ErrorHandler.isRetryableError
AccountCatch(call, message) ==
    IF retryRethrows(call.i, isRetryableError(message))
    THEN [call EXCEPT !.pc = "thrown", !.error = message]
    ELSE [call EXCEPT !.pc = "attempt", !.i = call.i + 1, !.error = message]

\* abi.encodePacked(commitment, nonce, msg.sender) hashed by the ledger:
\* bytes32, uint256 and address at their fixed widths
LedgerCommitHash(commitmentHex, nonce, sender) ==
    keccak256(commitmentHex \o PadStart(ToDigits(nonce, 16), HexWidth) \o sender)

\* commitReveals[commitHash].committer, address(0) when nothing is stored
LedgerCommitter(commitHash) ==
    IF \E cr \in commitReveals : cr.commitHash = commitHash
    THEN (CHOOSE cr \in commitReveals : cr.commitHash = commitHash).committer
    ELSE None

\* commitReveals[commitHash].commitBlock, 0 when nothing is stored
LedgerCommitBlock(commitHash) ==
    IF \E cr \in commitReveals : cr.commitHash = commitHash
    THEN (CHOOSE cr \in commitReveals : cr.commitHash = commitHash).commitBlock
    ELSE 0

\* the outcome of TradePrivate.revealTradingAccount: <<"o","k">> or the revert message
LedgerOk == <<"o", "k">>

LedgerReveal(commitmentHex, nonce, sender) ==
    LET hash == LedgerCommitHash(commitmentHex, nonce, sender)
    IN  IF LedgerCommitter(hash) # sender THEN MsgRevertCommitter
        ELSE IF blockNumber < LedgerCommitBlock(hash) + COMMIT_REVEAL_DELAY
        THEN MsgRevertTooEarly
        ELSE IF commitmentHex \in tradingAccounts THEN MsgRevertExists
        ELSE LedgerOk

\* PrivateAccountManager.savePendingCommit: the JSON written to sessionStorage
SerializePendingCommit(p) ==
    [ commitment  |-> toHex(p.commitment),
      nonce       |-> toDecimalString(p.nonce),
      commitHash  |-> p.commitHash,
      blockNumber |-> p.blockNumber ]

\* PrivateAccountManager.loadPendingCommit: the record parsed back
ParsePendingCommit(data) ==
    [ commitment  |-> fromHex(data.commitment),
      nonce       |-> parseBigInt(data.nonce),
      commitHash  |-> data.commitHash,
      blockNumber |-> data.blockNumber ]

AccountRest ==
    /\ privateKey = Some(TradingKey)
    /\ accountCommitment = None /\ accountNonce = None /\ pendingCommit = None
    /\ storedPendingCommit = None /\ storedAccount = None
    /\ initialized = TRUE
    /\ accountCalls = [c \in AccountSlots |-> IdleAccountCall]
    /\ signer = Address(10)
    /\ submittedCommits = {} /\ lastReveal = None /\ advances = 0
    /\ pendingLoaded = FALSE

LedgerRest ==
    /\ blockNumber = 0 /\ commitReveals = {} /\ tradingAccounts = {}
    /\ usedNullifiers = {} /\ privateOrders = {}

accountOthers == <<cryptoVars, orderVars, walletVars, sdkVars, usedNullifiers,
                   privateOrders>>

\* TradePrivateSDK.createPrivateAccount up to createAccount's withRetry
CreateStart(c) ==
    /\ accountCalls[c].pc = "idle"
    /\ \A d \in AccountSlots : d < c => accountCalls[d].pc # "idle"
    /\ started < MaxCalls
    /\ initialized
    /\ accountCommitment = None
    /\ accountCalls' = [accountCalls EXCEPT ![c] =
          [IdleAccountCall EXCEPT !.op = "create", !.pc = "attempt",
                                  !.userAddress = signer]]
    /\ started' = started + 1
    /\ UNCHANGED <<accountOthers, blockNumber, commitReveals, tradingAccounts,
                   privateKey, accountCommitment, accountNonce, pendingCommit,
                   storedPendingCommit, storedAccount, initialized, signer,
                   submittedCommits, lastReveal, advances, pendingLoaded, faults>>

\* createAccount lines 41-68: nonce, commitment, commit hash, then the ledger's
\* commitTradingAccount, which stores the commit or reverts on a known hash
CreateCommit(c, nonce) ==
    LET call == accountCalls[c]
        commitment == generateAccountCommitment(The(privateKey), nonce)
        commitHash == generateCommitHash(commitment, nonce, call.userAddress)
    IN  /\ call.op = "create" /\ call.pc = "attempt"
        /\ IF privateKey = None
           THEN /\ accountCalls' = [accountCalls EXCEPT ![c] =
                                      AccountCatch(call, MsgTypeError)]
                /\ UNCHANGED <<commitReveals, submittedCommits>>
           ELSE IF LedgerCommitter(commitHash) # None
           THEN /\ accountCalls' = [accountCalls EXCEPT ![c] =
                                      AccountCatch(call, MsgRevertCommitExists)]
                /\ UNCHANGED <<commitReveals, submittedCommits>>
           ELSE /\ commitReveals' = commitReveals \cup
                      {[ commitHash |-> commitHash, commitBlock |-> blockNumber,
                         committer |-> signer ]}
                /\ submittedCommits' = submittedCommits \cup
                      {[ commitment |-> commitment, nonce |-> nonce,
                         address |-> call.userAddress, commitHash |-> commitHash ]}
                /\ accountCalls' = [accountCalls EXCEPT ![c] =
                      [call EXCEPT !.pc = "receipt",
                                   !.made = Some([ commitment |-> commitment,
                                                   nonce |-> nonce,
                                                   commitHash |-> commitHash,
                                                   blockNumber |-> blockNumber ])]]
        /\ UNCHANGED <<accountOthers, blockNumber, tradingAccounts,
                       privateKey, accountCommitment, accountNonce, pendingCommit,
                       storedPendingCommit, storedAccount, initialized, signer,
                       lastReveal, advances, pendingLoaded, faults, started>>

\* createAccount lines 69-90: the receipt arrives, pendingCommit is set and saved
CreateStore(c) ==
    LET call == accountCalls[c]
    IN  /\ call.op = "create" /\ call.pc = "receipt"
        /\ pendingCommit' = call.made
        /\ pendingLoaded' = FALSE
        /\ storedPendingCommit' = Some(SerializePendingCommit(The(call.made)))
        /\ accountCalls' = [accountCalls EXCEPT ![c] = [call EXCEPT !.pc = "returned"]]
        /\ UNCHANGED <<accountOthers, ledgerVars, privateKey, accountCommitment,
                       accountNonce, storedAccount, initialized, signer,
                       submittedCommits, lastReveal, advances, faults, started>>

\* a ledger request of a call, or its wait for a receipt, times out
AccountTimeout(c) ==
    LET call == accountCalls[c]
    IN  /\ call.pc \in {"attempt", "receipt", "send", "confirm"}
        /\ faults < MaxFaults
        /\ faults' = faults + 1
        /\ accountCalls' = [accountCalls EXCEPT ![c] = AccountCatch(call, MsgTimeout)]
        /\ UNCHANGED <<accountOthers, ledgerVars, privateKey, accountCommitment,
                       accountNonce, pendingCommit, storedPendingCommit,
                       storedAccount, initialized, signer, submittedCommits,
                       lastReveal, advances, pendingLoaded, started>>

\* TradePrivateSDK.revealPrivateAccount up to revealAccount's withRetry
RevealStart(c) ==
    /\ accountCalls[c].pc = "idle"
    /\ \A d \in AccountSlots : d < c => accountCalls[d].pc # "idle"
    /\ started < MaxCalls
    /\ initialized
    /\ pendingCommit # None
    /\ accountCalls' = [accountCalls EXCEPT ![c] =
          [IdleAccountCall EXCEPT !.op = "reveal", !.pc = "attempt",
                                  !.userAddress = signer]]
    /\ started' = started + 1
    /\ UNCHANGED <<accountOthers, ledgerVars, privateKey, accountCommitment,
                   accountNonce, pendingCommit, storedPendingCommit,
                   storedAccount, initialized, signer, submittedCommits,
                   lastReveal, advances, pendingLoaded, faults>>

\* the delay test of revealAccount, lines 111-113
TooEarly(currentBlock, commitBlockNumber) ==
    currentBlock - commitBlockNumber < COMMIT_REVEAL_DELAY

\* revealAccount lines 105-115: read the block height, test the delay
RevealCheck(c) ==
    LET call == accountCalls[c]
    IN  /\ call.op = "reveal" /\ call.pc = "attempt"
        /\ accountCalls' = [accountCalls EXCEPT ![c] =
              IF pendingCommit = None THEN AccountCatch(call, MsgTypeError)
              ELSE IF TooEarly(blockNumber, The(pendingCommit).blockNumber)
              THEN AccountCatch(call, MsgMustWait)
              ELSE [call EXCEPT !.pc = "send", !.currentBlock = blockNumber]]
        /\ UNCHANGED <<accountOthers, ledgerVars, privateKey, accountCommitment,
                       accountNonce, pendingCommit, storedPendingCommit,
                       storedAccount, initialized, signer, submittedCommits,
                       lastReveal, advances, pendingLoaded, faults, started>>

\* the arguments revealAccount passes to revealTradingAccount, lines 134-138
RevealArguments(p) ==
    [ commitment |-> toHex(p.commitment), nonce |-> p.nonce ]

\* revealAccount lines 118-138 against TradePrivate.revealTradingAccount
RevealSend(c) ==
    LET call == accountCalls[c]
        args == RevealArguments(The(pendingCommit))
        outcome == LedgerReveal(args.commitment, args.nonce, signer)
        hash == LedgerCommitHash(args.commitment, args.nonce, signer)
    IN  /\ call.op = "reveal" /\ call.pc = "send"
        /\ IF pendingCommit = None
           THEN /\ accountCalls' = [accountCalls EXCEPT ![c] =
                                      AccountCatch(call, MsgTypeError)]
                /\ UNCHANGED <<commitReveals, tradingAccounts, lastReveal>>
           ELSE /\ lastReveal' =
                      Some([ commitment |-> args.commitment, nonce |-> args.nonce,
                             sender |-> signer, userAddress |-> call.userAddress,
                             currentBlock |-> call.currentBlock,
                             commitBlock |-> The(pendingCommit).blockNumber,
                             attempt |-> call.i, loaded |-> pendingLoaded,
                             accepted |-> outcome = LedgerOk ])
                /\ IF outcome = LedgerOk
                   THEN /\ tradingAccounts' = tradingAccounts \cup {args.commitment}
                        /\ commitReveals' =
                              {cr \in commitReveals : cr.commitHash # hash}
                        /\ accountCalls' = [accountCalls EXCEPT ![c] =
                                              [call EXCEPT !.pc = "confirm"]]
                   ELSE /\ accountCalls' = [accountCalls EXCEPT ![c] =
                                              AccountCatch(call, outcome)]
                        /\ UNCHANGED <<commitReveals, tradingAccounts>>
        /\ UNCHANGED <<accountOthers, blockNumber, privateKey, accountCommitment,
                       accountNonce, pendingCommit, storedPendingCommit,
                       storedAccount, initialized, signer, submittedCommits,
                       advances, pendingLoaded, faults, started>>

\* revealAccount lines 140-162: the receipt arrives; the account becomes active,
\* the account record is saved and the pending commit is cleared
RevealFinish(c) ==
    LET call == accountCalls[c]
    IN  /\ call.op = "reveal" /\ call.pc = "confirm"
        /\ IF pendingCommit = None
           THEN /\ accountCalls' = [accountCalls EXCEPT ![c] =
                                      AccountCatch(call, MsgTypeError)]
                /\ UNCHANGED <<accountCommitment, accountNonce, pendingCommit,
                               storedPendingCommit, storedAccount>>
           ELSE /\ accountCommitment' = Some(The(pendingCommit).commitment)
                /\ accountNonce' = Some(The(pendingCommit).nonce)
                /\ storedAccount' =
                      Some([ commitment |-> toHex(The(pendingCommit).commitment),
                             nonce |-> toDecimalString(The(pendingCommit).nonce) ])
                /\ pendingCommit' = None
                /\ storedPendingCommit' = None
                /\ accountCalls' = [accountCalls EXCEPT ![c] =
                                      [call EXCEPT !.pc = "returned"]]
        /\ UNCHANGED <<accountOthers, ledgerVars, privateKey, initialized, signer,
                       submittedCommits, lastReveal, advances, pendingLoaded,
                       faults, started>>

\* the caller takes the result or the error; the slot is free again
AccountReturn(c) ==
    /\ accountCalls[c].pc \in {"returned", "thrown"}
    /\ accountCalls' = [accountCalls EXCEPT ![c] = IdleAccountCall]
    /\ UNCHANGED <<accountOthers, ledgerVars, privateKey, accountCommitment,
                   accountNonce, pendingCommit, storedPendingCommit,
                   storedAccount, initialized, signer, submittedCommits,
                   lastReveal, advances, pendingLoaded, faults, started>>

\* the chain grows by k blocks
AdvanceBlocks(k) ==
    /\ advances < MaxAdvances
    /\ advances' = advances + 1
    /\ blockNumber' = blockNumber + k
    /\ UNCHANGED <<accountOthers, commitReveals, tradingAccounts, privateKey,
                   accountCommitment, accountNonce, pendingCommit,
                   storedPendingCommit, storedAccount, initialized, accountCalls,
                   signer, submittedCommits, lastReveal, faults, started,
                   pendingLoaded>>

\* the wallet's accountsChanged event: another address signs from now on
AccountsChanged(addr) ==
    /\ addr # signer
    /\ faults < MaxFaults
    /\ faults' = faults + 1
    /\ signer' = addr
    /\ UNCHANGED <<accountOthers, ledgerVars, privateKey, accountCommitment,
                   accountNonce, pendingCommit, storedPendingCommit,
                   storedAccount, initialized, accountCalls, submittedCommits,
                   lastReveal, advances, pendingLoaded, started>>

\* PrivateAccountManager.destroy with PrivateKeyManager.destroy, and
\* TradePrivateSDK.destroy's initialized = false
SdkDestroy ==
    /\ initialized
    /\ faults < MaxFaults
    /\ faults' = faults + 1
    /\ privateKey' = None
    /\ accountCommitment' = None
    /\ accountNonce' = None
    /\ pendingCommit' = None
    /\ pendingLoaded' = FALSE
    /\ initialized' = FALSE
    /\ UNCHANGED <<accountOthers, ledgerVars, storedPendingCommit, storedAccount,
                   accountCalls, signer, submittedCommits, lastReveal, advances,
                   started>>

\* SecureSessionManager.expireSession: sessionStorage.clear(), then the SDK
\* instance is destroyed
ExpireSession ==
    /\ initialized
    /\ faults < MaxFaults
    /\ faults' = faults + 1
    /\ storedPendingCommit' = None
    /\ privateKey' = None
    /\ accountCommitment' = None
    /\ accountNonce' = None
    /\ pendingCommit' = None
    /\ pendingLoaded' = FALSE
    /\ initialized' = FALSE
    /\ UNCHANGED <<accountOthers, ledgerVars, storedAccount, accountCalls, signer,
                   submittedCommits, lastReveal, advances, started>>

\* TradePrivateSDK.initialize: the key manager reloads its key, then
\* loadExistingAccount and loadPendingCommit read the stored records
SdkInitialize ==
    /\ ~initialized
    /\ privateKey' = Some(TradingKey)
    /\ IF storedAccount # None
       THEN /\ accountCommitment' = Some(fromHex(The(storedAccount).commitment))
            /\ accountNonce' = Some(parseBigInt(The(storedAccount).nonce))
       ELSE UNCHANGED <<accountCommitment, accountNonce>>
    /\ IF storedPendingCommit # None
       THEN /\ pendingCommit' = Some(ParsePendingCommit(The(storedPendingCommit)))
            /\ pendingLoaded' = TRUE
       ELSE UNCHANGED <<pendingCommit, pendingLoaded>>
    /\ initialized' = TRUE
    /\ UNCHANGED <<accountOthers, ledgerVars, storedPendingCommit, storedAccount,
                   accountCalls, signer, submittedCommits, lastReveal, advances,
                   faults, started>>

\* the page is reloaded: a fresh SDK instance, the calls in flight are gone,
\* sessionStorage and IndexedDB stay
PageReload ==
    /\ faults < MaxFaults
    /\ faults' = faults + 1
    /\ privateKey' = None
    /\ accountCommitment' = None
    /\ accountNonce' = None
    /\ pendingCommit' = None
    /\ pendingLoaded' = FALSE
    /\ initialized' = FALSE
    /\ accountCalls' = [c \in AccountSlots |-> IdleAccountCall]
    /\ UNCHANGED <<accountOthers, ledgerVars, storedPendingCommit, storedAccount,
                   signer, submittedCommits, lastReveal, advances, started>>

(* --------------------------- specifications --------------------------- *)

InitCryptoSpec == InitCrypto /\ LedgerRest /\ AccountRest /\ OrderRest /\ BreakerRest /\ WalletRest
                  /\ faults = 0 /\ started = 0

NextCrypto ==
    \/ ApplyOrderNullifier
    \/ ApplyAccountCommitment
    \/ ApplyOrderCommitment

SpecCrypto == InitCryptoSpec /\ [][NextCrypto]_vars

\* an active private account: the state after createAccount and revealAccount
InitOrder ==
    /\ CryptoRest /\ OrderRest /\ BreakerRest /\ WalletRest
    /\ privateKey = Some(TradingKey)
    /\ accountCommitment = Some(generateAccountCommitment(TradingKey, 0))
    /\ accountNonce = Some(0)
    /\ pendingCommit = None /\ storedPendingCommit = None
    /\ storedAccount = Some([ commitment |-> toHex(The(accountCommitment)),
                              nonce |-> toDecimalString(0) ])
    /\ initialized = TRUE
    /\ accountCalls = [c \in AccountSlots |-> IdleAccountCall]
    /\ signer = Address(10)
    /\ submittedCommits = {} /\ lastReveal = None /\ advances = 0
    /\ pendingLoaded = FALSE
    /\ blockNumber = COMMIT_REVEAL_DELAY /\ commitReveals = {}
    /\ tradingAccounts = {toHex(The(accountCommitment))}
    /\ usedNullifiers = {} /\ privateOrders = {}
    /\ faults = 0 /\ started = 0

\* the steps of submitPrivateOrder up to the encryption, where every attempt
\* ends; the steps after it (OrderSubmitAccepted, OrderSubmitReverts,
\* OrderSubmitTimeout, OrderReceipt) follow a call at "submit", which none
\* reaches
NextOrder ==
    \/ \E c \in Callers, o \in OrderChoices : OrderStart(c, o)
    \/ \E c \in Callers, n \in NonceSpace : OrderGenerate(c, n)
    \/ \E c \in Callers : OrderChecked(c)
    \/ \E c \in Callers : OrderCheckThrows(c)
    \/ \E c \in Callers : OrderSelectKeeper(c)
    \/ \E c \in Callers : OrderEncrypt(c)
    \/ \E n \in OrderNullifiers(TradingKey) : LedgerSubmitOrder(n)
    \/ \E c \in Callers : OrderReturn(c)

SpecOrder == InitOrder /\ [][NextOrder]_vars

InitAccount == CryptoRest /\ LedgerRest /\ AccountRest /\ OrderRest /\ BreakerRest /\ WalletRest
               /\ faults = 0 /\ started = 0

NextAccount ==
    \/ \E c \in AccountSlots : CreateStart(c)
    \/ \E c \in AccountSlots, n \in NonceSpace : CreateCommit(c, n)
    \/ \E c \in AccountSlots : CreateStore(c)
    \/ \E c \in AccountSlots : AccountTimeout(c)
    \/ \E c \in AccountSlots : RevealStart(c)
    \/ \E c \in AccountSlots : RevealCheck(c)
    \/ \E c \in AccountSlots : RevealSend(c)
    \/ \E c \in AccountSlots : RevealFinish(c)
    \/ \E c \in AccountSlots : AccountReturn(c)
    \/ \E k \in {1, COMMIT_REVEAL_DELAY - 1} : AdvanceBlocks(k)
    \/ \E a \in Addresses : AccountsChanged(a)
    \/ SdkDestroy
    \/ ExpireSession
    \/ SdkInitialize
    \/ PageReload

SpecAccount == InitAccount /\ [][NextAccount]_vars

(* ------------------- commit hash packing: SpecCommitHash --------------- *)

RECURSIVE Pow16(_)
\* 16^k
Pow16(k) == IF k = 0 THEN 1 ELSE 16 * Pow16(k - 1)

\* address strings of one byte less than an address, of an address, and of one
\* byte more (hex digits after the "0x" that generateCommitHash strips)
AddressInputs ==
    UNION { [1..len -> {10, 11}] :
                len \in {AddrHexLen - 1, AddrHexLen, AddrHexLen + 2} }

\* nonces: within the 32-byte range, and one that needs a 33rd byte
NonceInputs == (0..MaxNonce) \cup {Pow16(HexWidth + 1)}

CommitHashInput ==
    [ commitment : {FieldElement(v * 7) : v \in 0..(MaxVal + 4)},
      nonce : NonceInputs,
      address : AddressInputs ]

InitCommitHash ==
    /\ cin \in CommitHashInput
    /\ cout = None
    /\ LedgerRest /\ AccountRest /\ OrderRest /\ BreakerRest /\ WalletRest
    /\ faults = 0 /\ started = 0

\* CommitmentGenerator.generateCommitHash applied to the input: the code has
\* no rejecting branch, every input yields a hash
ApplyCommitHash ==
    /\ cout = None
    /\ cout' = Some([ fn |-> "commitHash",
                      a |-> generateCommitHash(cin.commitment, cin.nonce,
                                               cin.address) ])
    /\ UNCHANGED <<cin, cryptoOthers>>

NextCommitHash ==
    \/ ApplyCommitHash

SpecCommitHash == InitCommitHash /\ [][NextCommitHash]_vars

(* ------------------ keeper selection alone: SpecKeeper ---------------- *)

InitKeeper ==
    /\ cin \in KeeperLists
    /\ cout = None
    /\ LedgerRest /\ AccountRest /\ OrderRest /\ BreakerRest /\ WalletRest
    /\ faults = 0 /\ started = 0

ApplyKeeperSelection ==
    /\ cout = None
    /\ cout' = Some([fn |-> "keeper", a |-> getActiveKeeperPublicKey(cin)])
    /\ UNCHANGED <<cin, cryptoOthers>>

NextKeeper ==
    \/ ApplyKeeperSelection

SpecKeeper == InitKeeper /\ [][NextKeeper]_vars

(* ------------- the retry decision alone: SpecOrderRetry --------------- *)

\* the errors an attempt of submitPrivateOrder can end with: its own, those of
\* the provider, and the ledger's rejections
OrderErrors ==
    { MsgNullifierPrecheck, MsgTimeout, MsgRevertUsed, MsgRevertUsedTx,
      MsgRevertNoAccount, MsgNoActiveKeepers, MsgNoSuitableKeeper,
      MsgNotAFunction, MsgInvalidSize }

\* an attempt of a call and the error it ends with
OrderCatchInput ==
    [ message : OrderErrors, i : 0..maxRetries, params : OrderChoices ]

InitOrderRetry ==
    /\ cin \in OrderCatchInput
    /\ cout = None
    /\ LedgerRest /\ AccountRest /\ OrderRest /\ BreakerRest /\ WalletRest
    /\ faults = 0 /\ started = 0

\* withRetry's catch block, with the shouldRetry of submitPrivateOrder, applied
\* to the error of attempt i
ApplyOrderCatch ==
    /\ cout = None
    /\ cout' = Some([ fn |-> "catch",
                      a |-> OrderCatch([IdleOrderCall EXCEPT
                                           !.pc = "submit",
                                           !.params = Some(cin.params),
                                           !.i = cin.i],
                                       cin.message) ])
    /\ UNCHANGED <<cin, cryptoOthers>>

NextOrderRetry ==
    \/ ApplyOrderCatch

SpecOrderRetry == InitOrderRetry /\ [][NextOrderRetry]_vars

(* --------------- address validation: SpecValidation ------------------- *)

\* the message of every ValidationError: super('Validation failed', ...)
MsgValidationFailed ==
    <<"V", "a", "l", "i", "d", "a", "t", "i", "o", "n", " ", "f", "a",
      "i", "l", "e", "d">>

\* createAccount's guard
MsgAccountExists ==
    <<"A", "c", "c", "o", "u", "n", "t", " ", "a", "l", "r", "e", "a",
      "d", "y", " ", "e", "x", "i", "s", "t", "s">>

\* revealAccount's guard
MsgNoPendingCommit ==
    <<"N", "o", " ", "p", "e", "n", "d", "i", "n", "g", " ", "c", "o",
      "m", "m", "i", "t", " ", "f", "o", "u", "n", "d">>

\* withdraw's guard
MsgNoPrivateAccount ==
    <<"N", "o", " ", "p", "r", "i", "v", "a", "t", "e", " ", "a", "c",
      "c", "o", "u", "n", "t", " ", "f", "o", "u", "n", "d">>

\* an argument that was not passed
Undefined == <<"undefined">>

HexChars == {"0", "1", "a", "b"}

RECURSIVE TrimStart(_)
TrimStart(str) ==
    IF Len(str) > 0 /\ str[1] = " " THEN TrimStart(Tail(str)) ELSE str

RECURSIVE TrimEnd(_)
TrimEnd(str) ==
    IF Len(str) > 0 /\ str[Len(str)] = " "
    THEN TrimEnd(SubSeq(str, 1, Len(str) - 1)) ELSE str

\* String.prototype.trim
Trim(str) == TrimEnd(TrimStart(str))

\* address.startsWith('0x')
StartsWith0x(str) == Len(str) >= 2 /\ str[1] = "0" /\ str[2] = "x"

\* whether ethers.getAddress accepts a string that starts with 0x: the prefix
\* and the hex digits of an address (AddrHexLen of them in this model), in one
\* case
IsHexAddress(str) ==
    /\ Len(str) = 2 + AddrHexLen
    /\ \A k \in 3..Len(str) : str[k] \in HexChars

\* InputValidator.sanitizeAddress: <<"ok", address>> or <<"throws", message>>
sanitizeAddress(address) ==
    IF address = Undefined \/ address = <<>>
    THEN <<"throws", MsgValidationFailed>>
    ELSE LET trimmed == Trim(address)
             prefixed == IF StartsWith0x(trimmed) THEN trimmed
                         ELSE <<"0", "x">> \o trimmed
         IN  IF IsHexAddress(prefixed) THEN <<"ok", prefixed>>
             ELSE <<"throws", MsgValidationFailed>>

\* strings of hex digits of the length of an address
HexStrings == [1..AddrHexLen -> HexChars]

\* the addresses the methods are called with: none, empty, well-formed with and
\* without prefix and with blanks around, and malformed ones (too short, too
\* long, a digit that is not hex, an upper-case prefix)
AddressArgs ==
    {Undefined, <<>>, <<" ">>}
    \cup {<<"0", "x">> \o h : h \in HexStrings}
    \cup {<<" ">> \o h \o <<" ">> : h \in {<<"a", "b">>, <<"0", "1">>}}
    \cup {<<"0", "x">> \o SubSeq(h, 1, AddrHexLen - 1) :
             h \in {<<"a", "b">>, <<"0", "1">>}}
    \cup {<<"0", "x">> \o h \o <<"0">> : h \in {<<"a", "b">>}}
    \cup {<<"0", "x", "g">> \o SubSeq(h, 2, AddrHexLen) : h \in {<<"a", "b">>}}
    \cup {<<"0", "X">> \o h : h \in {<<"a", "b">>}}

MalformedAddress(address) == sanitizeAddress(address)[1] = "throws"

\* the methods of PrivateAccountManager that take the user's address
AddressMethods == {"create", "reveal", "withdraw"}

\* a pending commit as createAccount leaves it
SamplePendingCommit ==
    [ commitment |-> generateAccountCommitment(TradingKey, 0), nonce |-> 0,
      commitHash |-> generateCommitHash(generateAccountCommitment(TradingKey, 0),
                                        0, Address(10)),
      blockNumber |-> 0 ]

\* a method about to be called with an address, on a manager with or without an
\* account and with or without a pending commit
InitValidation ==
    /\ cin \in [op : AddressMethods, address : AddressArgs]
    /\ cout = None
    /\ LedgerRest /\ OrderRest /\ BreakerRest /\ WalletRest
    /\ privateKey = Some(TradingKey)
    /\ accountCommitment \in {None, Some(generateAccountCommitment(TradingKey, 0))}
    /\ accountNonce = IF accountCommitment = None THEN None ELSE Some(0)
    /\ pendingCommit \in {None, Some(SamplePendingCommit)}
    /\ storedPendingCommit = None /\ storedAccount = None
    /\ initialized = TRUE
    /\ accountCalls = [c \in AccountSlots |-> IdleAccountCall]
    /\ signer = Address(10)
    /\ submittedCommits = {} /\ lastReveal = None /\ advances = 0
    /\ pendingLoaded = FALSE
    /\ faults = 0 /\ started = 0

validationOthers == <<cryptoVars, ledgerVars, orderVars, walletVars, sdkVars,
                      privateKey, accountCommitment, accountNonce, pendingCommit,
                      storedPendingCommit, storedAccount, initialized, signer,
                      submittedCommits, lastReveal, advances, pendingLoaded,
                      faults>>

\* the guard a method tests before it calls withRetry: accountManager.js
\* lines 36-38, 100-102, 169-171
MethodGuardFails(op) ==
    \/ op = "create" /\ accountCommitment # None
    \/ op = "reveal" /\ pendingCommit = None
    \/ op = "withdraw" /\ accountCommitment = None

MethodGuardMessage(op) ==
    IF op = "create" THEN MsgAccountExists
    ELSE IF op = "reveal" THEN MsgNoPendingCommit
    ELSE MsgNoPrivateAccount

\* the method is called: its guard throws, or withRetry starts
MethodCall(c) ==
    /\ c = 1 /\ started = 0
    /\ accountCalls[c].pc = "idle"
    /\ started' = started + 1
    /\ accountCalls' = [accountCalls EXCEPT ![c] =
          IF MethodGuardFails(cin.op)
          THEN [IdleAccountCall EXCEPT !.op = cin.op, !.pc = "thrown",
                                       !.userAddress = cin.address,
                                       !.error = MethodGuardMessage(cin.op)]
          ELSE [IdleAccountCall EXCEPT !.op = cin.op, !.pc = "attempt",
                                       !.userAddress = cin.address]]
    /\ UNCHANGED validationOthers

\* the first statement of the retried function: sanitizeAddress(userAddress);
\* its error goes to withRetry's catch block, a sanitized address lets the
\* attempt go on to its ledger and crypto work
MethodValidate(c) ==
    LET call == accountCalls[c]
        sanitized == sanitizeAddress(call.userAddress)
    IN  /\ call.pc = "attempt"
        /\ accountCalls' = [accountCalls EXCEPT ![c] =
              IF sanitized[1] = "throws"
              THEN AccountCatch(call, sanitized[2])
              ELSE [call EXCEPT !.pc = "validated",
                                !.userAddress = sanitized[2]]]
        /\ UNCHANGED <<validationOthers, started>>

NextValidation ==
    \/ \E c \in AccountSlots : MethodCall(c)
    \/ \E c \in AccountSlots : MethodValidate(c)

SpecValidation == InitValidation /\ [][NextValidation]_vars

(* ------------------- local persistence: SpecStorage ------------------- *)

\* privateKeyManager.js:476, thrown when the keys cannot be stored in IndexedDB
MsgCannotStore ==
    <<"C", "a", "n", "n", "o", "t", " ", "s", "e", "c", "u", "r", "e",
      "l", "y", " ", "s", "t", "o", "r", "e", " ", "p", "r", "i", "v",
      "a", "t", "e", " ", "k", "e", "y", "s", ".", " ", "P", "r", "i",
      "v", "a", "t", "e", " ", "k", "e", "y", " ", "s", "t", "o", "r",
      "a", "g", "e", " ", "f", "a", "i", "l", "e", "d", ".">>

\* PrivateKeyManager.derivePublicKey: the key times 3, as hex
derivePublicKey(key) == toHex(mul(key, 3))

\* the record saveAccountInfo writes (createdAt apart)
AccountInfo ==
    [ commitment |-> toHex(The(accountCommitment)),
      nonce |-> toDecimalString(The(accountNonce)),
      publicKey |-> The(km.tradingPublicKey) ]

\* the UTF-8 bytes of a character: a, b or e-acute
Utf8(ch) ==
    IF ch = "a" THEN <<97>>
    ELSE IF ch = "b" THEN <<98>>
    ELSE <<195, 169>>

RECURSIVE encode(_)
\* new TextEncoder().encode(str)
encode(str) == IF Len(str) = 0 THEN <<>> ELSE Utf8(Head(str)) \o encode(Tail(str))

\* the passwords: strings of the characters a, b and e-acute
Passwords == {<<>>, <<"a">>, <<"a", "b">>, <<"a", "e'">>}

\* crypto.subtle.deriveKey with PBKDF2 over the password bytes and the salt
deriveKey(passwordBytes, salt) == <<"pbkdf2", passwordBytes, salt>>

\* crypto.subtle.encrypt with AES-GCM
aesGcmEncryptMangled(key, iv, plaintext) ==
    <<"aes-gcm", key, iv, <<"mangled", plaintext[2]>>>>

aesGcmEncrypt(key, iv, plaintext) == <<"aes-gcm", key, iv, plaintext>>

\* crypto.subtle.decrypt with AES-GCM: the plaintext under the key and iv of
\* the encryption, a rejection under any other
aesGcmDecryptUnauthenticated(key, iv, ciphertext) ==
    IF ciphertext[2] = key /\ ciphertext[3] = iv
    THEN <<"ok", ciphertext[4]>>
    ELSE <<"ok", <<"noise", ciphertext[4][2]>>>>

aesGcmDecrypt(key, iv, ciphertext) ==
    IF ciphertext[2] = key /\ ciphertext[3] = iv
    THEN <<"ok", ciphertext[4]>>
    ELSE <<"throws", <<>>>>

\* the record saveToSecureStorage writes (createdAt and version apart)
KeyData ==
    [ privateKey |-> toHex(The(privateKey)),
      tradingPublicKey |-> The(km.tradingPublicKey),
      encryptionKeys |-> The(km.encryptionKeys) ]

\* navigator.userAgent of the browser
UserAgent == <<"a", "b">>

\* new TextEncoder().encode(navigator.userAgent + Date.now()): the bytes of the
\* user agent and of the decimal digits of the time
storageKeyMaterial(now) ==
    encode(UserAgent) \o [k \in 1..Len(ToDigits(now, 10)) |->
                             48 + ToDigits(now, 10)[k]]

\* PrivateKeyManager.encryptForStorage at time now, with the salt and the
\* initialisation vector drawn
encryptForStorage(data, now, salt, iv) ==
    [ encrypted |-> aesGcmEncrypt(deriveKey(storageKeyMaterial(now), salt),
                                  iv, data),
      iv |-> iv, salt |-> salt ]

\* PrivateKeyManager.decryptFromStorage at time now: <<"ok", data>> or
\* <<"throws", ..>> when crypto.subtle.decrypt rejects
decryptFromStorage(encryptedData, now) ==
    aesGcmDecrypt(deriveKey(storageKeyMaterial(now), encryptedData.salt),
                  encryptedData.iv, encryptedData.encrypted)

\* a call's record: the method, whether its IndexedDB write failed, how it
\* ended, and sessionStorage as it was before the call
StorageCall(name, putFailed, outcome) ==
    [ name |-> name, putFailed |-> putFailed, outcome |-> outcome,
      sessionBefore |-> session ]

\* a manager with an account, legacy keys and some orders
InitStorage ==
    /\ CryptoRest /\ LedgerRest /\ OrderRest /\ BreakerRest
    /\ privateKey = Some(TradingKey)
    /\ accountNonce \in {Some(n) : n \in NonceSpace}
    /\ accountCommitment =
          Some(generateAccountCommitment(TradingKey, The(accountNonce)))
    /\ pendingCommit = None /\ storedPendingCommit = None /\ storedAccount = None
    /\ initialized = TRUE
    /\ accountCalls = [c \in AccountSlots |-> IdleAccountCall]
    /\ signer = Address(10)
    /\ submittedCommits = {} /\ lastReveal = None /\ advances = 0
    /\ pendingLoaded = FALSE
    /\ idb = EmptyIdb /\ session = EmptySession
    /\ hd = NewHDWallet
    /\ km \in { [ NewKeyManager EXCEPT
                    !.tradingPublicKey = Some(derivePublicKey(TradingKey)),
                    !.encryptionKeys = Some([publicKeyHex |-> k]),
                    !.isHDMode = m ] : k \in 1..MaxVal, m \in BOOLEAN }
    /\ walletCall = NoWalletCall /\ saved = None /\ hdLog = EmptyLog
    /\ faults = 0 /\ started = 0

storageOthers == <<cryptoVars, ledgerVars, accountVars, orderCalls, submitCalls,
                   hd, km, saved, hdLog, sdkVars>>

\* an order is recorded by submitPrivateOrder (line 107)
OrderRecorded(nullifier) ==
    /\ nullifier \notin pendingOrders
    /\ pendingOrders = {}
    /\ pendingOrders' = pendingOrders \cup {nullifier}
    /\ UNCHANGED <<storageOthers, idb, session, walletCall, faults, started>>

\* one write to IndexedDB within a call: it succeeds, or it fails at the cost
\* of a fault
PutOutcome(putFails) ==
    /\ started < MaxCalls
    /\ started' = started + 1
    /\ IF putFails THEN faults < MaxFaults /\ faults' = faults + 1
       ELSE UNCHANGED faults

\* PrivateAccountManager.saveAccountInfo
saveAccountInfo(putFails) ==
    /\ PutOutcome(putFails)
    /\ IF putFails
       THEN /\ session' = [session EXCEPT !.account = Some(AccountInfo)]
            /\ UNCHANGED idb
       ELSE /\ idb' = [idb EXCEPT !.accounts = Some(AccountInfo)]
            /\ UNCHANGED session
    /\ walletCall' = StorageCall("saveAccountInfo", putFails, <<"returned">>)
    /\ UNCHANGED <<storageOthers, pendingOrders>>

\* PrivateOrderManager.saveOrderHistory
saveOrderHistory(putFails) ==
    /\ PutOutcome(putFails)
    /\ IF putFails
       THEN /\ session' = [session EXCEPT !.orders = Some(pendingOrders)]
            /\ UNCHANGED idb
       ELSE /\ idb' = [idb EXCEPT !.orders = Some(pendingOrders)]
            /\ UNCHANGED session
    /\ walletCall' = StorageCall("saveOrderHistory", putFails, <<"returned">>)
    /\ UNCHANGED <<storageOthers, pendingOrders>>

\* PrivateKeyManager.saveToSecureStorage, privateKeyManager.js lines 440-478:
\* nothing in HD mode, else the encrypted keys to IndexedDB or an error
saveToSecureStorage(putFails) ==
    /\ PutOutcome(putFails)
    /\ ~km.isHDMode \/ ~putFails
    /\ IF km.isHDMode \/ putFails
       THEN UNCHANGED idb
       ELSE idb' = [idb EXCEPT !.keys =
                       Some(encryptForStorage(KeyData, started + 1, 0, 0))]
    /\ walletCall' = StorageCall("saveToSecureStorage", putFails,
                                 IF putFails THEN <<"thrown", MsgCannotStore>>
                                 ELSE <<"returned">>)
    /\ UNCHANGED <<storageOthers, pendingOrders, session>>

\* PrivateKeyManager.saveToSecureStorage of the legacy class, lines 831-862:
\* the keys in the clear to IndexedDB, or to sessionStorage when that fails
saveToSecureStorageLegacy(putFails) ==
    /\ PutOutcome(putFails)
    /\ IF putFails
       THEN /\ session' = [session EXCEPT !.keys = Some(KeyData)]
            /\ UNCHANGED idb
       ELSE /\ idb' = [idb EXCEPT !.keys = Some(KeyData)]
            /\ UNCHANGED session
    /\ walletCall' = StorageCall("saveToSecureStorageLegacy", putFails,
                                 <<"returned">>)
    /\ UNCHANGED <<storageOthers, pendingOrders>>

NextStorage ==
    \/ \E n \in OrderNullifiers(TradingKey) : OrderRecorded(n)
    \/ \E f \in BOOLEAN : saveAccountInfo(f)
    \/ \E f \in BOOLEAN : saveOrderHistory(f)
    \/ \E f \in BOOLEAN : saveToSecureStorage(f)
    \/ \E f \in BOOLEAN : saveToSecureStorageLegacy(f)

SpecStorage == InitStorage /\ [][NextStorage]_vars

(* ------------------------ HD wallet: SpecHDWallet ---------------------- *)

\* salts and initialisation vectors drawn by crypto.getRandomValues
MaxSalt == 1
\* calls of wallet methods per behaviour
MaxWalletCalls == 2

\* the word list of hdKeyDerivation.js: the first 100 words of BIP39
BIP39_WORDLIST ==
    <<
       "abandon", "ability", "able", "about", "above", "absent", "absorb", "abstract",
       "absurd", "abuse", "access", "accident", "account", "accuse", "achieve", "acid",
       "acoustic", "acquire", "across", "act", "action", "actor", "actress", "actual",
       "adapt", "add", "addict", "address", "adjust", "admit", "adult", "advance",
       "advice", "aerobic", "affair", "afford", "afraid", "again", "against", "age",
       "agent", "agree", "ahead", "aim", "air", "airport", "aisle", "alarm",
       "album", "alcohol", "alert", "alien", "all", "alley", "allow", "almost",
       "alone", "alpha", "already", "also", "alter", "always", "amateur", "amazing",
       "among", "amount", "amused", "analyst", "anchor", "ancient", "anger", "angle",
       "angry", "animal", "ankle", "announce", "annual", "another", "answer", "antenna",
       "antique", "anxiety", "any", "apart", "apology", "appear", "apple", "approve",
       "april", "arch", "arctic", "area", "arena", "argue", "arm", "armed",
       "armor", "army", "around", "arrange", "arrest", "arrive", "arrow", "art" >>

\* BIP39_WORDLIST.indexOf(word): from 0, -1 for a word that is not listed
WordIndex(word) ==
    IF \E k \in 1..Len(BIP39_WORDLIST) : BIP39_WORDLIST[k] = word
    THEN (CHOOSE k \in 1..Len(BIP39_WORDLIST) : BIP39_WORDLIST[k] = word) - 1
    ELSE -1

\* the bits of a byte array, eight a byte, high bit first
BitsOfBytes(bytes) ==
    [k \in 1..(8 * Len(bytes)) |->
        (bytes[((k - 1) \div 8) + 1] \div (2 ^ (7 - ((k - 1) % 8)))) % 2]

\* the exclusive or of all bytes of an array (the loop of calculateChecksum)
XorOfBytes(bytes) ==
    LET bit(k) == Cardinality({i \in 1..Len(bytes) :
                                  (bytes[i] \div (2 ^ k)) % 2 = 1}) % 2
    IN  bit(0) + 2 * bit(1) + 4 * bit(2) + 8 * bit(3) + 16 * bit(4)
        + 32 * bit(5) + 64 * bit(6) + 128 * bit(7)

\* HDWallet.calculateChecksum: the first `bits` binary digits of the
\* exclusive or of the bytes, padded to `bits` digits
calculateChecksum(entropy, bits) ==
    SubSeq(PadStart(ToDigits(XorOfBytes(entropy), 2), bits), 1, bits)

\* HDWallet.entropyToMnemonic: the words, in order (the phrase joins them
\* with single spaces)
entropyToMnemonic(entropy) ==
    LET fullBits == BitsOfBytes(entropy) \o calculateChecksum(entropy, 4)
        groups == (Len(fullBits) + 10) \div 11
        group(g) == SubSeq(fullBits, 11 * (g - 1) + 1,
                           Min(11 * g, Len(fullBits)))
    IN  [g \in 1..groups |->
            BIP39_WORDLIST[(FromDigits(group(g), 2) % Len(BIP39_WORDLIST)) + 1]]

\* the word counts validateMnemonic accepts
MnemonicLengths == {12, 15, 18, 21, 24}

\* HDWallet.validateMnemonic for a phrase of lower-case words separated by
\* single spaces; the checksum is not looked at (line 383)
validateMnemonic(mnemonic) ==
    /\ Len(mnemonic) \in MnemonicLengths
    /\ \A k \in 1..Len(mnemonic) : WordIndex(mnemonic[k]) >= 0

\* HMAC-SHA512 of data under a key: the two 32-byte halves, each read as a
\* field element
hmacSha512(key, data) ==
    [ left |-> hashLoop(FieldElement(key + 1), data),
      right |-> hashLoop(FieldElement(key + 2), data) ]

\* the HMAC key 'ed25519 seed' of deriveMasterKey
EdSeedKey == 5

\* child numbers from here on are hardened (0x80000000 in the source)
HardenedOffset == 1073741824

\* HDWallet.derivePublicKey
hdDerivePublicKey(key) == mul(key, 2)

\* HDWallet.publicKeyToAddress: simpleHash leaves 32 bytes as they are, the
\* address is the hex of the last 20 of them
publicKeyToAddress(publicKey) == toHex(publicKey)

\* HDWallet.deriveChild; the parent key and the HMAC are bound as values, so
\* that a path of five children costs five derivations
deriveChild(parentKey, childNumber, hardened) ==
    LET index == IF hardened THEN childNumber + HardenedOffset ELSE childNumber
        data(parent) ==
            IF hardened THEN <<0, parent.privateKey, index>>
            ELSE <<hdDerivePublicKey(parent.privateKey), index>>
        child(parent, hash) ==
            [ privateKey |-> add(parent.privateKey, hash.left),
              chainCode |-> hash.right ]
    IN  CHOOSE key \in
            UNION { { child(parent, hash) :
                        hash \in {hmacSha512(parent.chainCode, data(parent))} } :
                    parent \in {parentKey} } : TRUE

\* the keys HDWallet.deriveAccount walks through: m/44'/60'/account'/0/0
deriveAccountKey(masterKey, accountIndex) ==
    LET purpose == deriveChild(masterKey, 44, TRUE)
        coin == deriveChild(purpose, 60, TRUE)
        account == deriveChild(coin, accountIndex, TRUE)
        change == deriveChild(account, 0, FALSE)
    IN  deriveChild(change, 0, FALSE)

\* a plausible slip: the address level derived hardened
deriveAddressKeyHardened(masterKey, accountIndex, i) ==
    LET purpose == deriveChild(masterKey, 44, TRUE)
        coin == deriveChild(purpose, 60, TRUE)
        account == deriveChild(coin, accountIndex, TRUE)
        accountKey == deriveChild(account, 0, FALSE)
    IN  deriveChild(accountKey, i, TRUE)

\* the keys HDWallet.deriveAddresses walks through: m/44'/60'/account'/0/i
deriveAddressKey(masterKey, accountIndex, i) ==
    LET purpose == deriveChild(masterKey, 44, TRUE)
        coin == deriveChild(purpose, 60, TRUE)
        account == deriveChild(coin, accountIndex, TRUE)
        accountKey == deriveChild(account, 0, FALSE)
    IN  deriveChild(accountKey, i, FALSE)

\* HDWallet.seedFromMnemonic: PBKDF2 over the phrase, here the words' places
\* in the word list
seedFromMnemonic(mnemonic) ==
    <<"seed", [k \in 1..Len(mnemonic) |-> WordIndex(mnemonic[k])]>>

\* HDWallet.generateFromEntropy as the key manager uses it: the seed of the
\* phrase of a fresh entropy
seedFromEntropy(entropy) == <<"seed", <<entropy>>>>

\* HDWallet.getSeedHash
getSeedHash(seed) == <<"sha256", seed>>

\* HDWallet.deriveMasterKey
deriveMasterKey(seed) ==
    LET hash == hmacSha512(EdSeedKey, seed[2])
    IN  [ privateKey |-> hash.left, chainCode |-> hash.right ]

\* the private key of the account HDWallet.deriveAccount derives along
\* m/44'/60'/account'/0/0
accountPrivateKey(masterKey, accountIndex) ==
    deriveAccountKey(masterKey, accountIndex).privateKey

\* the memory and storage the wallet methods work on
WalletState ==
    [ hd |-> hd, privateKey |-> privateKey, km |-> km, idb |-> idb,
      saved |-> saved ]

Thrown(message) == <<"thrown", message>>
Returned(value) == <<"returned", value>>

\* HDWallet.saveToStorage in state w at time now: <<state after, outcome>>
hdSaveToStorage(w, password, salt, iv, now, putFails) ==
    IF w.hd.seed = None THEN <<w, Thrown("No seed to save")>>
    ELSE IF putFails THEN <<w, Thrown("put failed")>>
    ELSE LET key == deriveKey(encode(password), salt)
             data == [ encrypted |-> aesGcmEncrypt(key, iv, The(w.hd.seed)),
                       iv |-> iv, salt |-> salt, timestamp |-> now ]
         IN  << [w EXCEPT !.idb.seed = Some(data),
                          !.saved = Some([ password |-> password,
                                           seed |-> The(w.hd.seed) ])],
                Returned("true") >>

\* HDWallet.loadFromStorage in state w: <<state after, outcome>>
hdLoadFromStorage(w, password) ==
    IF w.idb.seed = None THEN <<w, Returned("false")>>
    ELSE LET data == The(w.idb.seed)
             key == deriveKey(encode(password), data.salt)
             decrypted == aesGcmDecrypt(key, data.iv, data.encrypted)
         IN  IF decrypted[1] = "throws"
             THEN <<w, Thrown("Invalid password or corrupted data")>>
             ELSE << [w EXCEPT !.hd.seed = Some(decrypted[2]),
                               !.hd.masterKey =
                                   Some(deriveMasterKey(decrypted[2])),
                               !.hd.initialized = TRUE],
                     Returned("true") >>

\* the accounts a key manager installs
InstalledAccounts == 0..1

\* master key and account key for every entropy and account the key manager
\* installs, derived once
InstalledKeys ==
    [ entropy \in 1..MaxVal |->
        [ index \in InstalledAccounts |->
            [ masterKey |-> deriveMasterKey(seedFromEntropy(entropy)),
              key |-> accountPrivateKey(
                          deriveMasterKey(seedFromEntropy(entropy)), index) ] ] ]

\* the steps of generateHDWallet and restoreHDWallet that can fail
FailurePoints == {"none", "generate", "derive", "seed", "metadata"}

\* the try block of PrivateKeyManager.generateHDWallet (account 0) and
\* restoreHDWallet in state w, failing at failAt: <<state after, outcome>>
hdInstall(w, entropy, pw, index, encKey, salt, iv, now, failAt, msg) ==
    IF failAt = "generate" THEN <<w, Thrown(msg)>>
    ELSE
    LET seed == seedFromEntropy(entropy)
        \* the rest of the try block, for the master key and the account's
        \* private key as values
        installed(masterKey, key) ==
            LET w1 == [w EXCEPT !.hd.seed = Some(seed),
                                !.hd.masterKey = Some(masterKey),
                                !.hd.initialized = TRUE]
                account == [ index |-> index, privateKey |-> key ]
                w2 == [w1 EXCEPT !.hd.accounts =
                                    {a \in @ : a.index # index} \cup {account},
                                 !.hd.currentAccountIndex = index]
                w3 == [w2 EXCEPT !.privateKey = Some(key),
                                 !.km = [ tradingPublicKey |->
                                              Some(derivePublicKey(key)),
                                          encryptionKeys |->
                                              Some([publicKeyHex |-> encKey]),
                                          accountIndex |-> index,
                                          isHDMode |-> TRUE ]]
                stored == hdSaveToStorage(w3, pw, salt, iv, now, failAt = "seed")
                metadata == [ isHDMode |-> TRUE, accountIndex |-> index,
                              timestamp |-> now ]
            IN  IF failAt = "derive" THEN <<w1, Thrown(msg)>>
                ELSE IF stored[2][1] = "thrown" THEN <<stored[1], Thrown(msg)>>
                ELSE IF failAt = "metadata" THEN <<stored[1], Thrown(msg)>>
                ELSE << [stored[1] EXCEPT !.idb.metadata = Some(metadata)],
                        Returned("true") >>
    IN  installed(InstalledKeys[entropy][index].masterKey,
                  InstalledKeys[entropy][index].key)

\* PrivateKeyManager.migrateToHD in state w: <<state after, outcome>>
kmMigrateToHD(w, entropy, password, encKey, salt, iv, now, failAt) ==
    IF w.km.isHDMode THEN <<w, Thrown("Already using HD wallet")>>
    ELSE IF w.privateKey = None THEN <<w, Thrown("No legacy keys to migrate")>>
    ELSE LET generated == hdInstall(w, entropy, password, 0, encKey, salt, iv,
                                    now, failAt, "HD wallet generation failed")
         IN  IF generated[2][1] = "thrown"
             THEN << [generated[1] EXCEPT
                         !.privateKey = w.privateKey,
                         !.km.tradingPublicKey = w.km.tradingPublicKey,
                         !.km.isHDMode = FALSE],
                     Thrown("Migration failed") >>
             ELSE generated

\* a key manager without keys, or with legacy keys loaded
InitHDWallet ==
    /\ CryptoRest /\ LedgerRest /\ OrderRest /\ BreakerRest
    /\ privateKey \in {None, Some(TradingKey)}
    /\ accountCommitment = None /\ accountNonce = None /\ pendingCommit = None
    /\ storedPendingCommit = None /\ storedAccount = None
    /\ initialized = TRUE
    /\ accountCalls = [c \in AccountSlots |-> IdleAccountCall]
    /\ signer = Address(10)
    /\ submittedCommits = {} /\ lastReveal = None /\ advances = 0
    /\ pendingLoaded = FALSE
    /\ idb = EmptyIdb /\ session = EmptySession
    /\ hd = NewHDWallet
    /\ km = IF privateKey = None THEN NewKeyManager
            ELSE [ NewKeyManager EXCEPT
                     !.tradingPublicKey = Some(derivePublicKey(TradingKey)),
                     !.encryptionKeys = Some([publicKeyHex |-> 0]) ]
    /\ walletCall = NoWalletCall /\ saved = None /\ hdLog = EmptyLog
    /\ faults = 0 /\ started = 0

hdCommon == <<cryptoVars, ledgerVars, orderVars, sdkVars, accountCommitment,
              accountNonce, pendingCommit, storedPendingCommit, storedAccount,
              initialized, accountCalls, signer, submittedCommits, lastReveal,
              advances, pendingLoaded, session, faults>>

hdOthers == <<hdCommon, hdLog>>

\* a call of a wallet method ends: the state it leaves and the call's record
WalletCallEnds(name, password, failAt, result) ==
    /\ started < MaxWalletCalls
    /\ started' = started + 1
    /\ hd' = result[1].hd
    /\ privateKey' = result[1].privateKey
    /\ km' = result[1].km
    /\ idb' = result[1].idb
    /\ saved' = result[1].saved
    /\ walletCall' = [ name |-> name, password |-> password, failAt |-> failAt,
                       outcome |-> result[2], now |-> started + 1,
                       before |-> WalletState ]
    /\ UNCHANGED hdOthers

GenerateHDWallet(entropy, password, encKey, salt, iv, failAt) ==
    /\ failAt \in FailurePoints
    /\ WalletCallEnds("generateHDWallet", password, failAt,
           hdInstall(WalletState, entropy, password, 0, encKey, salt, iv,
                     started + 1, failAt, "HD wallet generation failed"))

RestoreHDWallet(entropy, password, accountIndex, encKey, salt, iv, failAt) ==
    /\ failAt \in FailurePoints
    /\ WalletCallEnds("restoreHDWallet", password, failAt,
           hdInstall(WalletState, entropy, password, accountIndex, encKey, salt,
                     iv, started + 1, failAt, "HD wallet restoration failed"))

MigrateToHD(entropy, password, encKey, salt, iv, failAt) ==
    /\ failAt \in FailurePoints
    /\ WalletCallEnds("migrateToHD", password, failAt,
           kmMigrateToHD(WalletState, entropy, password, encKey, salt, iv,
                         started + 1, failAt))

SaveToStorage(password, salt, iv, putFails) ==
    /\ putFails \in BOOLEAN
    /\ WalletCallEnds("saveToStorage", password,
                      IF putFails THEN "seed" ELSE "none",
           hdSaveToStorage(WalletState, password, salt, iv, started + 1, putFails))

LoadFromStorage(password) ==
    /\ password \in Passwords
    /\ WalletCallEnds("loadFromStorage", password, "none",
           hdLoadFromStorage(WalletState, password))

\* the page is loaded anew: fresh instances, storage as it was
NewInstance ==
    /\ hd # NewHDWallet \/ privateKey # None
    /\ hd' = NewHDWallet /\ km' = NewKeyManager /\ privateKey' = None
    /\ walletCall' = NoWalletCall
    /\ UNCHANGED <<hdOthers, idb, saved, started>>

\* the steps of a wallet; generation, restoration and migration draw one
\* random value for the salt and the initialisation vector
NextHDWallet ==
    \/ \E e \in 1..MaxVal, p \in Passwords, k \in 1..MaxVal, r \in 0..MaxSalt,
          f \in FailurePoints : GenerateHDWallet(e, p, k, r, r, f)
    \/ \E e \in 1..MaxVal, p \in Passwords, a \in InstalledAccounts,
          k \in 1..MaxVal, r \in 0..MaxSalt, f \in FailurePoints :
          RestoreHDWallet(e, p, a, k, r, r, f)
    \/ \E e \in 1..MaxVal, p \in Passwords, k \in 1..MaxVal, r \in 0..MaxSalt,
          f \in FailurePoints : MigrateToHD(e, p, k, r, r, f)
    \/ \E p \in Passwords, r \in 0..MaxSalt, v \in 0..MaxSalt, f \in BOOLEAN :
          SaveToStorage(p, r, v, f)
    \/ \E p \in Passwords : LoadFromStorage(p)
    \/ NewInstance

SpecHDWallet == InitHDWallet /\ [][NextHDWallet]_vars

(* --------------------- the HDWallet class: SpecWallet ------------------- *)

\* calls made of one wallet history
MaxHDCalls == 4

\* the last byte of the entropies drawn
MaxEntropy == 2

\* entropy of n bytes as crypto.getRandomValues may fill it
EntropyBytes(n, b) == [i \in 1..n |-> IF i = n THEN b ELSE 0]

Entropies == {EntropyBytes(16, b) : b \in 1..MaxEntropy}

\* phrases tried with restoreFromMnemonic: generated ones, one a word short,
\* one with a word that is not listed, one with another last word
Mnemonics ==
    LET m == entropyToMnemonic(EntropyBytes(16, 1))
    IN  {entropyToMnemonic(e) : e \in Entropies}
        \cup { SubSeq(m, 1, Len(m) - 1),
               [m EXCEPT ![1] = "zoo"],
               [m EXCEPT ![Len(m)] = "ability"] }

\* HDWallet.seedFromMnemonic in state w: seed, master key, initialized
hdSeedFromMnemonic(w, mnemonic) ==
    [w EXCEPT !.hd.seed = Some(seedFromMnemonic(mnemonic)),
              !.hd.masterKey =
                  Some(deriveMasterKey(seedFromMnemonic(mnemonic))),
              !.hd.initialized = TRUE]

\* HDWallet.generateFromEntropy in state w: <<state after, outcome>>
hdGenerateFromEntropy(w, entropy) ==
    LET mnemonic == entropyToMnemonic(entropy)
    IN  << hdSeedFromMnemonic(w, mnemonic),
           Returned([ mnemonic |-> mnemonic,
                      seedHash |-> getSeedHash(seedFromMnemonic(mnemonic)) ]) >>

\* HDWallet.restoreFromMnemonic in state w: <<state after, outcome>>
hdRestoreFromMnemonic(w, mnemonic) ==
    IF ~validateMnemonic(mnemonic)
    THEN <<w, Thrown("Invalid mnemonic phrase")>>
    ELSE <<hdSeedFromMnemonic(w, mnemonic), Returned("true")>>

\* HDWallet.deriveAccount in state w: <<state after, outcome>>
hdDeriveAccount(w, accountIndex) ==
    IF ~w.hd.initialized THEN <<w, Thrown("HD wallet not initialized")>>
    ELSE IF w.hd.masterKey = None THEN <<w, Thrown("TypeError")>>
    ELSE LET addressKey == deriveAccountKey(The(w.hd.masterKey), accountIndex)
             account == [ index |-> accountIndex,
                          privateKey |-> addressKey.privateKey ]
         IN  << [w EXCEPT !.hd.accounts =
                              {a \in @ : a.index # accountIndex} \cup {account},
                          !.hd.currentAccountIndex = accountIndex],
                Returned([ privateKey |-> addressKey.privateKey,
                           publicKey |->
                               hdDerivePublicKey(addressKey.privateKey) ]) >>

\* HDWallet.deriveAddresses in state w: <<state after, outcome>>; the
\* addresses returned are listed from index 0
hdDeriveAddresses(w, accountIndex, count) ==
    IF \A a \in w.hd.accounts : a.index # accountIndex
    THEN <<w, Thrown("Account not found")>>
    ELSE IF w.hd.masterKey = None THEN <<w, Thrown("TypeError")>>
    ELSE LET key(i) == deriveAddressKey(The(w.hd.masterKey), accountIndex, i)
         IN  << w,
                Returned([ k \in 1..count |->
                    [ index |-> k - 1,
                      privateKey |-> key(k - 1).privateKey,
                      address |-> publicKeyToAddress(
                          hdDerivePublicKey(key(k - 1).privateKey)) ] ]) >>

\* HDWallet.getTradingKeys in state w: <<state after, outcome>>
hdGetTradingKeys(w, accountIndex) ==
    IF \A a \in w.hd.accounts : a.index # accountIndex
    THEN <<w, Thrown("Account not found")>>
    ELSE LET account == CHOOSE a \in w.hd.accounts : a.index = accountIndex
         IN  << w,
                Returned([ privateKey |-> account.privateKey,
                           publicKey |-> toHex(mul(account.privateKey, 3)),
                           address |-> publicKeyToAddress(
                               hdDerivePublicKey(account.privateKey)) ]) >>

\* a plausible slip: destroy forgets the derived accounts
hdDestroyKeepsAccounts(w) ==
    << [w EXCEPT !.hd.seed = None, !.hd.masterKey = None,
                 !.hd.initialized = FALSE],
       Returned("undefined") >>

\* HDWallet.destroy in state w
hdDestroy(w) ==
    << [w EXCEPT !.hd.seed = None, !.hd.masterKey = None,
                 !.hd.accounts = {}, !.hd.initialized = FALSE],
       Returned("undefined") >>

\* a wallet without keys and an empty store
InitWallet ==
    /\ CryptoRest /\ LedgerRest /\ OrderRest /\ BreakerRest
    /\ privateKey = None
    /\ accountCommitment = None /\ accountNonce = None /\ pendingCommit = None
    /\ storedPendingCommit = None /\ storedAccount = None
    /\ initialized = TRUE
    /\ accountCalls = [c \in AccountSlots |-> IdleAccountCall]
    /\ signer = Address(10)
    /\ submittedCommits = {} /\ lastReveal = None /\ advances = 0
    /\ pendingLoaded = FALSE
    /\ WalletRest
    /\ faults = 0 /\ started = 0

\* a call of an HDWallet method ends: the state it leaves, the call's
\* record, and what is noted of the keys handed out
HDCallEnds(name, args, result, log) ==
    /\ started < MaxHDCalls
    /\ started' = started + 1
    /\ hd' = result[1].hd
    /\ idb' = result[1].idb
    /\ saved' = result[1].saved
    /\ walletCall' = [ name |-> name, args |-> args, outcome |-> result[2],
                       before |-> WalletState ]
    /\ hdLog' = log
    /\ UNCHANGED <<hdCommon, privateKey, km>>

GenerateFromEntropy(entropy) ==
    /\ entropy \in Entropies
    /\ HDCallEnds("generateFromEntropy", [entropy |-> entropy],
                  hdGenerateFromEntropy(WalletState, entropy), hdLog)

RestoreFromMnemonic(mnemonic) ==
    /\ mnemonic \in Mnemonics
    /\ HDCallEnds("restoreFromMnemonic", [mnemonic |-> mnemonic],
                  hdRestoreFromMnemonic(WalletState, mnemonic), hdLog)

DeriveAccount(accountIndex) ==
    /\ accountIndex \in Nat
    /\ LET result == hdDeriveAccount(WalletState, accountIndex)
           entry == [ seed |-> The(hd.seed), account |-> accountIndex, index |-> 0,
                      privateKey |-> result[2][2].privateKey,
                      by |-> "deriveAccount" ]
       IN  HDCallEnds("deriveAccount", [accountIndex |-> accountIndex], result,
               IF result[2][1] = "thrown" THEN hdLog
               ELSE [ derived |-> hdLog.derived \cup {entry},
                      sinceDestroy |-> hdLog.sinceDestroy \cup {accountIndex} ])

DeriveAddresses(accountIndex, count) ==
    /\ accountIndex \in Nat
    /\ LET result == hdDeriveAddresses(WalletState, accountIndex, count)
           entries == { [ seed |-> The(hd.seed), account |-> accountIndex,
                          index |-> result[2][2][k].index,
                          privateKey |-> result[2][2][k].privateKey,
                          by |-> "deriveAddresses" ] : k \in 1..count }
       IN  HDCallEnds("deriveAddresses",
               [accountIndex |-> accountIndex, count |-> count], result,
               IF result[2][1] = "thrown" THEN hdLog
               ELSE [hdLog EXCEPT !.derived = @ \cup entries])

GetTradingKeys(accountIndex) ==
    /\ accountIndex \in Nat
    /\ HDCallEnds("getTradingKeys", [accountIndex |-> accountIndex],
                  hdGetTradingKeys(WalletState, accountIndex), hdLog)

Destroy ==
    /\ hd # NewHDWallet
    /\ HDCallEnds("destroy", [none |-> 0], hdDestroy(WalletState),
                  [hdLog EXCEPT !.sinceDestroy = {}])

WalletSave(password) ==
    /\ password \in Passwords
    /\ HDCallEnds("saveToStorage", [password |-> password],
                  hdSaveToStorage(WalletState, password, 0, 0, started + 1,
                                  FALSE), hdLog)

WalletLoad(password) ==
    /\ password \in Passwords
    /\ HDCallEnds("loadFromStorage", [password |-> password],
                  hdLoadFromStorage(WalletState, password), hdLog)

\* another instance of the class: nothing in memory, storage as it was
FreshWallet ==
    /\ hd # NewHDWallet
    /\ hd' = NewHDWallet
    /\ walletCall' = NoWalletCall
    /\ hdLog' = [hdLog EXCEPT !.sinceDestroy = {}]
    /\ UNCHANGED <<hdCommon, privateKey, km, idb, saved, started>>

NextWallet ==
    \/ \E e \in Entropies : GenerateFromEntropy(e)
    \/ \E m \in Mnemonics : RestoreFromMnemonic(m)
    \/ \E a \in 0..1 : DeriveAccount(a)
    \/ \E a \in 0..1, n \in 1..2 : DeriveAddresses(a, n)
    \/ \E a \in 0..1 : GetTradingKeys(a)
    \/ Destroy
    \/ WalletSave(<<"a">>)
    \/ \E p \in {<<"a">>, <<"a", "b">>} : WalletLoad(p)
    \/ FreshWallet

SpecWallet == InitWallet /\ [][NextWallet]_vars

(* ------------------ the key manager: SpecKeyManager -------------------- *)

\* calls of key manager methods per behaviour; the time of a call is its number
MaxKmCalls == 3

\* the record saveToSecureStorage writes in state w (createdAt and version apart)
kmKeyData(w) ==
    [ privateKey |-> toHex(The(w.privateKey)),
      tradingPublicKey |-> The(w.km.tradingPublicKey),
      encryptionKeys |-> The(w.km.encryptionKeys),
      type |-> "legacy" ]

\* PrivateKeyManager.tryLoadHDWallet in state w: <<state after, hdLoaded>>
kmTryLoadHDWallet(w) ==
    IF w.idb.metadata = None THEN <<w, FALSE>>
    ELSE << [w EXCEPT !.km.isHDMode = The(w.idb.metadata).isHDMode,
                      !.km.accountIndex = The(w.idb.metadata).accountIndex],
            TRUE >>

\* PrivateKeyManager.loadFromSecureStorage in state w at time now
kmLoadFromSecureStorage(w, now) ==
    IF w.idb.keys = None THEN <<w, Returned("false")>>
    ELSE LET decrypted == decryptFromStorage(The(w.idb.keys), now)
         IN  IF decrypted[1] = "throws"
             THEN <<w, Thrown("Failed to load private keys securely")>>
             ELSE << [w EXCEPT
                        !.privateKey = Some(fromHex(decrypted[2].privateKey)),
                        !.km.tradingPublicKey =
                            Some(decrypted[2].tradingPublicKey),
                        !.km.encryptionKeys = Some(decrypted[2].encryptionKeys),
                        !.km.isHDMode = FALSE],
                     Returned("true") >>

\* PrivateKeyManager.validateKeys in state w: the error thrown, or None
kmValidateKeys(w) ==
    IF w.privateKey = None \/ w.privateKey = Some(0)
    THEN Some("Invalid private key")
    ELSE IF w.km.tradingPublicKey = None
    THEN Some("Invalid trading public key")
    ELSE IF w.km.encryptionKeys = None THEN Some("Invalid encryption keys")
    ELSE None

\* PrivateKeyManager.initialize in state w at time now
kmInitialize(w, now) ==
    LET hdTried == kmTryLoadHDWallet(w)
        legacy == kmLoadFromSecureStorage(hdTried[1], now)
    IN  IF hdTried[2] THEN <<hdTried[1], Returned("undefined")>>
        ELSE IF legacy[2][1] = "thrown" THEN legacy
        ELSE IF legacy[2][2] = "false" THEN <<legacy[1], Returned("undefined")>>
        ELSE IF kmValidateKeys(legacy[1]) # None
        THEN <<legacy[1], Thrown(The(kmValidateKeys(legacy[1])))>>
        ELSE <<legacy[1], Returned("undefined")>>

\* PrivateKeyManager.generateNewKeys in state w at time now: the keys are set,
\* saveToSecureStorage writes them unless the manager is in HD mode, then
\* isHDMode is cleared
kmGenerateNewKeys(w, keyBytes, encKey, now, salt, iv, putFails) ==
    LET key == fromBytes([keyBytes EXCEPT ![1] = @ % 128])
        w1 == [w EXCEPT !.privateKey = Some(key),
                        !.km.tradingPublicKey = Some(derivePublicKey(key)),
                        !.km.encryptionKeys = Some([publicKeyHex |-> encKey])]
        w2 == IF w1.km.isHDMode THEN w1
              ELSE [w1 EXCEPT !.idb.keys = Some(encryptForStorage(
                                  kmKeyData(w1), now, salt, iv))]
    IN  IF ~w1.km.isHDMode /\ putFails THEN <<w1, Thrown(MsgCannotStore)>>
        ELSE <<[w2 EXCEPT !.km.isHDMode = FALSE], Returned("undefined")>>

\* PrivateKeyManager.switchAccount in state w at time now
kmSwitchAccount(w, accountIndex, password, now, metadataFails) ==
    IF ~w.km.isHDMode
    THEN <<w, Thrown("Not in HD mode. Cannot switch accounts.")>>
    ELSE
    LET loaded == IF w.hd.initialized THEN <<w, Returned("true")>>
                  ELSE hdLoadFromStorage(w, password)
        w1 == loaded[1]
        derived == IF \E a \in w1.hd.accounts : a.index = accountIndex
                   THEN <<w1, Returned("true")>>
                   ELSE hdDeriveAccount(w1, accountIndex)
        w2 == derived[1]
        tradingKeys == hdGetTradingKeys(w2, accountIndex)
        w3 == [w2 EXCEPT !.privateKey = Some(tradingKeys[2][2].privateKey),
                         !.km.tradingPublicKey =
                             Some(tradingKeys[2][2].publicKey),
                         !.km.accountIndex = accountIndex]
        metadata == [ isHDMode |-> w3.km.isHDMode, accountIndex |-> accountIndex,
                      timestamp |-> now ]
    IN  IF loaded[2][1] = "thrown" THEN loaded
        ELSE IF loaded[2][2] = "false"
        THEN <<w1, Thrown("Failed to load HD wallet")>>
        ELSE IF derived[2][1] = "thrown" THEN derived
        ELSE IF tradingKeys[2][1] = "thrown" THEN tradingKeys
        ELSE IF metadataFails THEN <<w3, Thrown("put failed")>>
        ELSE << [w3 EXCEPT !.idb.metadata = Some(metadata)],
                Returned("true") >>

\* a call of a key manager method ends: the state it leaves and its record
KmCallEnds(name, result) ==
    /\ started < MaxKmCalls
    /\ started' = started + 1
    /\ hd' = result[1].hd
    /\ privateKey' = result[1].privateKey
    /\ km' = result[1].km
    /\ idb' = result[1].idb
    /\ saved' = result[1].saved
    /\ walletCall' = [ name |-> name, outcome |-> result[2],
                       now |-> started + 1, before |-> WalletState ]
    /\ UNCHANGED hdOthers

KmGenerateHDWallet(entropy, password, failAt) ==
    /\ failAt \in FailurePoints
    /\ KmCallEnds("generateHDWallet",
           hdInstall(WalletState, entropy, password, 0, 1, 0, 0, started + 1,
                     failAt, "HD wallet generation failed"))

KmRestoreHDWallet(entropy, password, accountIndex, failAt) ==
    /\ failAt \in FailurePoints
    /\ KmCallEnds("restoreHDWallet",
           hdInstall(WalletState, entropy, password, accountIndex, 1, 0, 0,
                     started + 1, failAt, "HD wallet restoration failed"))

KmSwitchAccount(accountIndex, password, metadataFails) ==
    /\ metadataFails \in BOOLEAN
    /\ KmCallEnds("switchAccount",
           kmSwitchAccount(WalletState, accountIndex, password, started + 1,
                           metadataFails))

KmGenerateNewKeys(keyBytes, putFails) ==
    /\ putFails \in BOOLEAN
    /\ KmCallEnds("generateNewKeys",
           kmGenerateNewKeys(WalletState, keyBytes, 1, started + 1, 0, 0,
                             putFails))

KmInitialize ==
    /\ walletCall = NoWalletCall
    /\ KmCallEnds("initialize", kmInitialize(WalletState, started + 1))

KmLoadFromSecureStorage ==
    /\ walletCall.name # "none"
    /\ KmCallEnds("loadFromSecureStorage",
           kmLoadFromSecureStorage(WalletState, started + 1))

\* the page is loaded anew: fresh instances, storage as it was
KmNewInstance ==
    /\ walletCall # NoWalletCall
    /\ hd' = NewHDWallet /\ km' = NewKeyManager /\ privateKey' = None
    /\ walletCall' = NoWalletCall
    /\ UNCHANGED <<hdOthers, idb, saved, started>>

\* the passwords typed, and the bytes generateNewKeys draws
KmPasswords == {<<"a">>, <<"a", "b">>}
KmKeyBytes == {<<0, 0>>, <<0, MaxVal>>, <<128, 1>>}

NextKeyManager ==
    \/ \E e \in 1..MaxVal, p \in KmPasswords, f \in FailurePoints :
          KmGenerateHDWallet(e, p, f)
    \/ \E e \in 1..MaxVal, p \in KmPasswords, a \in InstalledAccounts,
          f \in FailurePoints : KmRestoreHDWallet(e, p, a, f)
    \/ \E a \in InstalledAccounts, p \in KmPasswords, f \in BOOLEAN :
          KmSwitchAccount(a, p, f)
    \/ \E b \in KmKeyBytes, f \in BOOLEAN : KmGenerateNewKeys(b, f)
    \/ KmInitialize
    \/ KmLoadFromSecureStorage
    \/ KmNewInstance

\* a fresh page: a key manager without keys, storage empty
SpecKeyManager == InitWallet /\ [][NextKeyManager]_vars

(* ---------------- order encryption for keepers: SpecEncryption ---------- *)

\* JavaScript values the encryption passes around: a BigInt, a Uint8Array
BigIntValue(n) == <<"bigint", n>>
Uint8Array(bytes) == <<"bytes", bytes>>

\* a character that is not a hex digit (hex digits are 0..15)
NonHexChar == 16

\* OrderEncryption.bigintToBytes: `v & 0xFFn` throws a TypeError unless the
\* value is a BigInt; otherwise the low `length` bytes, high byte first
bigintToBytes(value, length) ==
    IF value[1] # "bigint" THEN <<"throws", "TypeError">>
    ELSE LET digits == PadStart(ToDigits(value[2], 256), length)
         IN  <<"ok", Uint8Array(SubSeq(digits, Len(digits) - length + 1,
                                       Len(digits)))>>

\* FieldElement.fromString for a string without "0x": BigInt('0x' + str)
fieldFromString(str) ==
    IF str = <<>> \/ \E k \in 1..Len(str) : str[k] \notin 0..15
    THEN <<"throws", "SyntaxError">>
    ELSE <<"ok", fromHex(str)>>

\* OrderEncryption.generateSharedSecret: crypto.subtle.importKey rejects a
\* raw ECDH private key, so the catch block computes the secret: private key
\* times public key in the field, as 32 bytes
generateSharedSecret(privKey, publicKey) ==
    LET publicKeyElement == fieldFromString(publicKey)
    IN  IF privKey[1] # "bigint" THEN <<"throws", "TypeError">>
        ELSE IF publicKeyElement[1] = "throws" THEN publicKeyElement
        ELSE bigintToBytes(
                 BigIntValue(mul(FieldElement(privKey[2]),
                                 publicKeyElement[2])), 32)

\* OrderEncryption.deriveEncryptionKey: SHA-256 of bigintToBytes(secret, 32)
deriveEncryptionKey(sharedSecret) ==
    LET secretBytes == bigintToBytes(sharedSecret, 32)
    IN  IF secretBytes[1] = "throws" THEN secretBytes
        ELSE <<"ok", <<"sha256", secretBytes[2]>>>>

\* OrderEncryption.derivePublicKey: (privateKey * 2n) % FIELD_SIZE in hex
encDerivePublicKey(privKey) == ToDigits((privKey[2] * 2) % FIELD_SIZE, 16)

\* OrderEncryption.encryptWithAES: the output of AES-GCM split into the
\* ciphertext and its last 16 bytes, the tag
encryptWithAES(data, key, iv) ==
    LET encrypted == aesGcmEncrypt(key, iv, data)
    IN  [ ciphertext |-> <<"body", encrypted>>, iv |-> iv,
          authTag |-> <<"tag", encrypted>> ]

\* OrderEncryption.decryptWithAES: ciphertext and tag put together again
decryptWithAES(ciphertext, key, iv, authTag) ==
    IF ciphertext[2] # authTag[2] THEN <<"throws", "OperationError">>
    ELSE LET decrypted == aesGcmDecrypt(key, iv, ciphertext[2])
         IN  IF decrypted[1] = "throws" THEN <<"throws", "OperationError">>
             ELSE decrypted

\* OrderEncryption.serializeOrder: the JSON text of the twelve fields with
\* their defaults
serializeOrder(orderData, now) ==
    << "json",
       [ market |-> orderData.market,
         size |-> orderData.size,
         price |-> IF orderData.price = <<>> THEN <<0>> ELSE orderData.price,
         isLong |-> orderData.isLong,
         orderType |-> orderData.orderType,
         leverage |-> orderData.leverage,
         tpPrice |-> IF orderData.tpPrice = <<>> THEN <<0>>
                     ELSE orderData.tpPrice,
         slPrice |-> IF orderData.slPrice = <<>> THEN <<0>>
                     ELSE orderData.slPrice,
         isReduceOnly |-> orderData.isReduceOnly,
         timestamp |-> IF orderData.timestamp = 0 THEN now
                       ELSE orderData.timestamp,
         userCommitment |-> orderData.userCommitment,
         nonce |-> orderData.nonce ] >>

\* OrderEncryption.deserializeOrder
deserializeOrder(data) == data[2]

\* OrderEncryption.hashOrder: sum of the i-th element times i, in hex
hashOrder(orderData) ==
    LET market == fieldFromString(orderData.market)
        size == fieldFromString(orderData.size)
        price == fieldFromString(IF orderData.price = <<>> THEN <<0>>
                                 ELSE orderData.price)
    IN  IF market[1] = "throws" THEN market
        ELSE IF size[1] = "throws" THEN size
        ELSE IF price[1] = "throws" THEN price
        ELSE <<"ok",
               ToDigits(add(add(add(add(add(add(0, mul(market[2], 1)),
                                            mul(size[2], 2)),
                                        mul(price[2], 3)),
                                    mul(IF orderData.isLong THEN 1 ELSE 0, 4)),
                                mul(orderData.orderType, 5)),
                            mul(orderData.leverage, 6)), 16)>>

\* OrderEncryption.encryptOrderForKeeper with the iv drawn and the clock
encryptOrderForKeeper(orderData, keeperPublicKey, userPrivateKey, iv, now) ==
    LET sharedSecret == generateSharedSecret(userPrivateKey, keeperPublicKey)
        encryptionKey == deriveEncryptionKey(sharedSecret[2])
        encrypted == encryptWithAES(serializeOrder(orderData, now),
                                    encryptionKey[2], iv)
        orderHash == hashOrder(orderData)
    IN  IF sharedSecret[1] = "throws"
        THEN Thrown(<<"Failed to encrypt order", sharedSecret[2]>>)
        ELSE IF encryptionKey[1] = "throws"
        THEN Thrown(<<"Failed to encrypt order", encryptionKey[2]>>)
        ELSE IF orderHash[1] = "throws"
        THEN Thrown(<<"Failed to encrypt order", orderHash[2]>>)
        ELSE Returned([ encrypted |-> encrypted.ciphertext,
                        iv |-> encrypted.iv,
                        authTag |-> encrypted.authTag,
                        ephemeralPublicKey |->
                            encDerivePublicKey(userPrivateKey),
                        metadata |-> [ keeperPublicKey |-> keeperPublicKey,
                                       timestamp |-> now ],
                        orderHash |-> orderHash[2] ])

\* a plausible slip: the decrypted bytes handed out whatever the key and tag
decryptOrderForKeeperUnchecked(encryptedOrder, keeperPrivateKey, now) ==
    Returned([ orderData |-> deserializeOrder(encryptedOrder.encrypted[2][4]),
               metadata |-> encryptedOrder.metadata, decryptedAt |-> now ])

\* OrderEncryption.decryptOrderForKeeper with the clock
decryptOrderForKeeper(encryptedOrder, keeperPrivateKey, now) ==
    LET sharedSecret == generateSharedSecret(keeperPrivateKey,
                                             encryptedOrder.ephemeralPublicKey)
        decryptionKey == deriveEncryptionKey(sharedSecret[2])
        decrypted == decryptWithAES(encryptedOrder.encrypted, decryptionKey[2],
                                    encryptedOrder.iv, encryptedOrder.authTag)
        orderData == deserializeOrder(decrypted[2])
        computedHash == hashOrder(orderData)
    IN  IF sharedSecret[1] = "throws"
        THEN Thrown(<<"Failed to decrypt order", sharedSecret[2]>>)
        ELSE IF decryptionKey[1] = "throws"
        THEN Thrown(<<"Failed to decrypt order", decryptionKey[2]>>)
        ELSE IF decrypted[1] = "throws"
        THEN Thrown(<<"Failed to decrypt order", decrypted[2]>>)
        ELSE IF computedHash[1] = "throws"
        THEN Thrown(<<"Failed to decrypt order", computedHash[2]>>)
        ELSE IF computedHash[2] # encryptedOrder.orderHash
        THEN Thrown(<<"Failed to decrypt order", "Order hash mismatch">>)
        ELSE Returned([ orderData |-> orderData,
                        metadata |-> encryptedOrder.metadata,
                        decryptedAt |-> now ])

\* orders given to the encryption: strings are hex digits
KeeperOrders ==
    [ market : {<<1, 0>>}, size : {<<2>>, <<1, NonHexChar, 5>>},
      price : {<<>>, <<3>>}, isLong : BOOLEAN, orderType : {0},
      leverage : {1, 2}, tpPrice : {<<>>}, slPrice : {<<>>},
      isReduceOnly : {FALSE}, timestamp : {0, 7}, userCommitment : {<<4>>},
      nonce : {0} ]

\* what a sender whose key derivation works hands to the keeper
SealedOrder(orderData, userPrivateKey, keeperPrivateKey, iv, now) ==
    LET secret == mul(FieldElement(userPrivateKey),
                      fromHex(encDerivePublicKey(BigIntValue(keeperPrivateKey))))
        key == <<"sha256", bigintToBytes(BigIntValue(secret), 32)[2]>>
        encrypted == encryptWithAES(serializeOrder(orderData, now), key, iv)
        orderHash == hashOrder(orderData)
    IN  [ encrypted |-> encrypted.ciphertext, iv |-> encrypted.iv,
          authTag |-> encrypted.authTag,
          ephemeralPublicKey |->
              encDerivePublicKey(BigIntValue(userPrivateKey)),
          metadata |-> [ keeperPublicKey |->
                             encDerivePublicKey(BigIntValue(keeperPrivateKey)),
                         timestamp |-> now ],
          orderHash |-> IF orderHash[1] = "throws" THEN <<0>>
                        ELSE orderHash[2] ]

\* what can be altered on the way to the keeper
TamperKinds == {"none", "ciphertext", "iv", "authTag", "orderHash"}

Tampered(e, kind) ==
    CASE kind = "none" -> e
      [] kind = "ciphertext" ->
            [e EXCEPT !.encrypted =
                <<"body", aesGcmEncrypt(e.encrypted[2][2], e.encrypted[2][3],
                                        <<"json", 0>>)>>]
      [] kind = "iv" -> [e EXCEPT !.iv = @ + 1]
      [] kind = "authTag" ->
            [e EXCEPT !.authTag =
                <<"tag", aesGcmEncrypt(e.authTag[2][2], e.authTag[2][3],
                                       <<"json", 0>>)>>]
      [] kind = "orderHash" -> [e EXCEPT !.orderHash = @ \o <<1>>]

\* an order, the sender's and the keeper's private keys, the key the
\* decryption is tried with, what was altered, and the iv drawn
EncryptionInput ==
    [ order : KeeperOrders, user : 1..MaxVal, keeper : {3}, with : {3, 4},
      tamper : TamperKinds, iv : 0..1 ]

InitEncryption ==
    /\ cin \in EncryptionInput
    /\ cout = None
    /\ LedgerRest /\ AccountRest /\ OrderRest /\ BreakerRest /\ WalletRest
    /\ faults = 0 /\ started = 0

\* two encryptions of the order for the keeper, one after the other
ApplyEncryptOrder ==
    /\ cout = None
    /\ LET keeperPublicKey == encDerivePublicKey(BigIntValue(cin.keeper))
           user == BigIntValue(cin.user)
       IN  cout' = Some([ fn |-> "encrypt",
                          sharedSecret |->
                              generateSharedSecret(user, keeperPublicKey),
                          first |-> encryptOrderForKeeper(
                              cin.order, keeperPublicKey, user, cin.iv, 1),
                          sharedSecretAgain |->
                              generateSharedSecret(user, keeperPublicKey),
                          second |-> encryptOrderForKeeper(
                              cin.order, keeperPublicKey, user, cin.iv + 1, 2) ])
    /\ UNCHANGED <<cin, cryptoOthers>>

\* the keeper decrypts what reached it
ApplyDecryptOrder ==
    /\ cout = None
    /\ cout' = Some([ fn |-> "decrypt",
                      a |-> decryptOrderForKeeper(
                          Tampered(SealedOrder(cin.order, cin.user, cin.keeper,
                                               cin.iv, 1), cin.tamper),
                          BigIntValue(cin.with), 2) ])
    /\ UNCHANGED <<cin, cryptoOthers>>

NextEncryption ==
    \/ ApplyEncryptOrder
    \/ ApplyDecryptOrder

SpecEncryption == InitEncryption /\ [][NextEncryption]_vars

(* ------------------- field arithmetic alone: SpecField ------------------ *)

\* integers around the field: negative ones, field elements, larger ones
FieldIntegers == (0 - FIELD_SIZE - MaxVal)..(2 * FIELD_SIZE + MaxVal)

\* second operands, as integers
FieldOperands == {0 - 1, 0, 1, MaxVal, FIELD_SIZE - 1, FIELD_SIZE + MaxVal}

\* byte arrays drawn or read
FieldBytes == {<<0, 0>>, <<0, MaxVal>>, <<255, 255>>}

FieldInput ==
    [ a : FieldIntegers, b : FieldOperands, e : {0 - 1, 0, MaxVal},
      bytes : FieldBytes ]

InitField ==
    /\ cin \in FieldInput
    /\ cout = None
    /\ LedgerRest /\ AccountRest /\ OrderRest /\ BreakerRest /\ WalletRest
    /\ faults = 0 /\ started = 0

\* the constructor and the static constructors
ApplyFieldConstruct ==
    /\ cout = None
    /\ cout' = Some([ fn |-> "construct",
                      results |->
                        { FieldElement(cin.a),
                          fromHex(ToDigits(FieldElement(cin.a) + FIELD_SIZE, 16)),
                          fromBytes(cin.bytes),
                          random(cin.bytes) } ])
    /\ UNCHANGED <<cin, cryptoOthers>>

\* add, sub and mul of the element of a with b; the operands afterwards
ApplyFieldArithmetic ==
    /\ cout = None
    /\ LET x == FieldElement(cin.a)
           y == FieldElement(cin.b)
       IN  cout' = Some([ fn |-> "arithmetic", x |-> x, y |-> y,
                          sum |-> add(x, y),
                          product |-> mul(x, y),
                          results |-> { add(x, cin.b), sub(x, cin.b),
                                        mul(x, cin.b) },
                          xAfter |-> x, yAfter |-> y ])
    /\ UNCHANGED <<cin, cryptoOthers>>

\* pow and inv of the element of a, and inverseFieldElement of a
ApplyFieldInverse ==
    /\ cout = None
    /\ LET x == FieldElement(cin.a)
       IN  cout' = Some([ fn |-> "inverse", x |-> x,
                          inverse |-> inv(x),
                          inverseTimesX |-> mul(inv(x), x),
                          checked |-> inverseFieldElement(cin.a),
                          results |-> { pow(x, cin.e), inv(x) } ])
    /\ UNCHANGED <<cin, cryptoOthers>>

\* toHex of the element of a, and fromHex of that string
ApplyFieldSerialize ==
    /\ cout = None
    /\ LET x == FieldElement(cin.a)
       IN  cout' = Some([ fn |-> "serialize", x |-> x,
                          hex |-> toHexString(x),
                          back |-> fromHexString(toHexString(x)) ])
    /\ UNCHANGED <<cin, cryptoOthers>>

NextField ==
    \/ ApplyFieldConstruct
    \/ ApplyFieldArithmetic
    \/ ApplyFieldInverse
    \/ ApplyFieldSerialize

SpecField == InitField /\ [][NextField]_vars

(* ---------------- nullifier validation alone: SpecNullifier -------------- *)

\* the digits the pattern /^0x[0-9a-fA-F]{64}$/ accepts, by value
LowerHexDigits ==
    <<"0", "1", "2", "3", "4", "5", "6", "7", "8", "9", "a", "b", "c", "d",
      "e", "f">>

UpperHexDigits ==
    <<"0", "1", "2", "3", "4", "5", "6", "7", "8", "9", "A", "B", "C", "D",
      "E", "F">>

\* whether [0-9a-fA-F] matches the character
IsHexDigit(c) ==
    \E v \in 1..16 : LowerHexDigits[v] = c \/ UpperHexDigits[v] = c

\* the value BigInt gives a hex digit of either case
HexDigitValue(c) ==
    (CHOOSE v \in 1..16 : LowerHexDigits[v] = c \/ UpperHexDigits[v] = c) - 1

\* BigInt(nullifier) for a string "0x" + hex digits
BigIntOfHexString(str) ==
    FromDigits([k \in 1..(Len(str) - 2) |-> HexDigitValue(str[k + 2])], 16)

MsgNullifierNotString == "Nullifier must be a string"
MsgNullifierNoPrefix == "Nullifier must start with 0x"
MsgNullifierLength == "Nullifier must be 32 bytes (64 hex chars)"
MsgNullifierChars == "Nullifier contains invalid characters"
MsgNullifierTooLarge == "Nullifier exceeds field size"
MsgInvalidNullifiers == "Invalid nullifiers"
MsgDuplicateNullifiers == "Duplicate nullifiers detected"

\* NullifierGenerator.validateNullifier: <<"ok", TRUE>> or <<"throws", message>>;
\* the 66 characters of the source are 2 + HexWidth here
validateNullifier(nullifier) ==
    IF nullifier = Undefined THEN <<"throws", MsgNullifierNotString>>
    ELSE IF ~StartsWith0x(nullifier) THEN <<"throws", MsgNullifierNoPrefix>>
    ELSE IF Len(nullifier) # 2 + HexWidth THEN <<"throws", MsgNullifierLength>>
    ELSE IF \E k \in 3..Len(nullifier) : ~IsHexDigit(nullifier[k])
         THEN <<"throws", MsgNullifierChars>>
    ELSE IF BigIntOfHexString(nullifier) >= FIELD_SIZE
         THEN <<"throws", MsgNullifierTooLarge>>
    ELSE <<"ok", TRUE>>

\* NullifierGenerator.validateNullifiers: the errors of the entries by index,
\* then new Set(nullifiers).size against nullifiers.length
validateNullifiers(nullifiers) ==
    LET errors == { i \in 1..Len(nullifiers) :
                      validateNullifier(nullifiers[i])[1] = "throws" }
        uniqueNullifiers == { nullifiers[i] : i \in 1..Len(nullifiers) }
    IN  IF errors # {}
        THEN <<"throws", MsgInvalidNullifiers,
               [i \in errors |-> validateNullifier(nullifiers[i])[2]]>>
        ELSE IF Cardinality(uniqueNullifiers) # Len(nullifiers)
             THEN <<"throws", MsgDuplicateNullifiers, <<>>>>
             ELSE <<"ok", TRUE, <<>>>>

\* longest list of nullifiers validated at once
MaxNullifiers == 2

\* characters of the entries: hex digits of both cases and one that is not
NullifierChars == {"0", "3", "a", "A", "g"}

\* entries: prefixed strings of the right length, one without the prefix, one
\* too short, one too long, and a value that is not a string
NullifierEntries ==
    { <<"0", "x">> \o body : body \in [1..HexWidth -> NullifierChars] }
        \cup { [k \in 1..(HexWidth + 2) |-> "0"],
               <<"0", "x">> \o [k \in 1..(HexWidth - 1) |-> "a"],
               <<"0", "x">> \o [k \in 1..(HexWidth + 1) |-> "0"],
               Undefined }

NullifierInput ==
    UNION { [1..n -> NullifierEntries] : n \in 0..MaxNullifiers }

InitNullifier ==
    /\ cin \in NullifierInput
    /\ cout = None
    /\ LedgerRest /\ AccountRest /\ OrderRest /\ BreakerRest /\ WalletRest
    /\ faults = 0 /\ started = 0

\* validateNullifier on the first entry of the list
ApplyValidateNullifier ==
    /\ cout = None
    /\ Len(cin) > 0
    /\ cout' = Some([ fn |-> "validateNullifier",
                      result |-> validateNullifier(cin[1]) ])
    /\ UNCHANGED <<cin, cryptoOthers>>

\* validateNullifiers on the list
ApplyValidateNullifiers ==
    /\ cout = None
    /\ cout' = Some([ fn |-> "validateNullifiers",
                      result |-> validateNullifiers(cin) ])
    /\ UNCHANGED <<cin, cryptoOthers>>

NextNullifier ==
    \/ ApplyValidateNullifier
    \/ ApplyValidateNullifiers

SpecNullifier == InitNullifier /\ [][NextNullifier]_vars

(* ------------------- ErrorHandler.withRetry: SpecRetry ------------------ *)

\* a plausible slip: the delay grows without the cap
nextDelayUncapped(delay, backoffFactor, maxDelay) == delay * backoffFactor

\* withRetry line 99: delay = Math.min(delay * backoffFactor, maxDelay)
nextDelay(delay, backoffFactor, maxDelay) == Min(delay * backoffFactor, maxDelay)

\* the delay options in milliseconds: the defaults, which are those of
\* CONSTANTS.RETRY, one with a cap the delays reach, one with a factor of three
RetryDelays ==
    { [ initialDelay |-> 1000, maxDelay |-> 10000, backoffFactor |-> 2 ],
      [ initialDelay |-> 1000, maxDelay |-> 3000, backoffFactor |-> 2 ],
      [ initialDelay |-> 5000, maxDelay |-> 10000, backoffFactor |-> 3 ] }

\* what the invocations of fn end with, in order: a value (None) or an error
RetryOutcomes ==
    [1..(maxRetries + 1) -> {None, Some(MsgTimeout), Some(MsgRevertUsed)}]

\* the shouldRetry option: the default, or isRetryableError as the managers pass
RetryInput ==
    [ delays : RetryDelays, outcomes : RetryOutcomes,
      shouldRetry : {"default", "isRetryableError"} ]

\* shouldRetry(error) for the option given
shouldRetry(option, message) ==
    IF option = "default" THEN TRUE ELSE isRetryableError(message)

InitRetry ==
    /\ cin \in RetryInput
    /\ cout = None
    /\ LedgerRest /\ AccountRest /\ OrderRest /\ BreakerRest /\ WalletRest
    /\ faults = 0 /\ started = 0

\* withRetry lines 73-85: the options are taken, delay = initialDelay, i = 0
RetryStart ==
    /\ cout = None
    /\ cout' = Some([ pc |-> "call", i |-> 0, delay |-> cin.delays.initialDelay,
                      calls |-> 0, waits |-> <<>>, lastError |-> None ])
    /\ UNCHANGED <<cin, cryptoOthers>>

\* withRetry lines 86-96: fn is invoked and settles; a value is returned, an
\* error is rethrown at the last attempt or when shouldRetry rejects it
RetryAttempt ==
    /\ cout # None /\ The(cout).pc = "call"
    /\ LET loop == The(cout)
           outcome == cin.outcomes[loop.i + 1]
           called == [loop EXCEPT !.calls = @ + 1]
       IN  cout' = Some(
             IF outcome = None THEN [called EXCEPT !.pc = "returned"]
             ELSE IF retryRethrows(loop.i,
                                   shouldRetry(cin.shouldRetry, The(outcome)))
             THEN [called EXCEPT !.pc = "thrown", !.lastError = outcome]
             ELSE [called EXCEPT !.pc = "wait", !.lastError = outcome])
    /\ UNCHANGED <<cin, cryptoOthers>>

\* withRetry lines 98-99 and the loop's i++: the timer of delay milliseconds
\* fires, the delay grows up to maxDelay
RetryWait ==
    /\ cout # None /\ The(cout).pc = "wait"
    /\ LET loop == The(cout)
       IN  cout' = Some([loop EXCEPT
                           !.pc = "call",
                           !.waits = Append(@, loop.delay),
                           !.delay = nextDelay(loop.delay,
                                               cin.delays.backoffFactor,
                                               cin.delays.maxDelay),
                           !.i = @ + 1])
    /\ UNCHANGED <<cin, cryptoOthers>>

NextRetry ==
    \/ RetryStart
    \/ RetryAttempt
    \/ RetryWait

\* fn settles and the timers fire
SpecRetry == InitRetry /\ [][NextRetry]_vars /\ WF_vars(NextRetry)

(* --------------- the status of an order: SpecOrderStatus -------------- *)

\* the nullifiers asked about, as NullifierGenerator produces them
StatusNullifiers == {toHex(v) : v \in 1..MaxVal}

\* the account commitments orders are submitted for: the account the ledger
\* holds, and one it does not hold
StatusAccounts ==
    {toHex(generateAccountCommitment(TradingKey, n)) : n \in 0..1}

\* most orders submitted, batches executed and queries made in a behaviour
MaxStatusSteps == 4

\* privateOrders[nullifier].expirationBlock, 0 when nothing is stored
LedgerExpirationBlock(nullifier) ==
    IF \E o \in privateOrders : o.nullifier = nullifier
    THEN (CHOOSE o \in privateOrders : o.nullifier = nullifier).expirationBlock
    ELSE 0

\* TradePrivate.isOrderValid
isOrderValid(nullifier) ==
    /\ LedgerExpirationBlock(nullifier) >= blockNumber
    /\ nullifier \notin usedNullifiers

\* PrivateOrderManager.getOrderStatus for a well-formed nullifier
getOrderStatus(nullifier) ==
    LET isUsed == nullifier \in usedNullifiers
        isValid == isOrderValid(nullifier)
    IN  [ executed |-> isUsed /\ ~isValid,
          pending |-> ~isUsed /\ isValid,
          expired |-> ~isUsed /\ ~isValid,
          unknown |-> nullifier \notin pendingOrders ]

InitOrderStatus ==
    /\ cin = None /\ cout = None
    /\ blockNumber = 1 /\ commitReveals = {}
    /\ tradingAccounts = {toHex(generateAccountCommitment(TradingKey, 0))}
    /\ usedNullifiers = {} /\ privateOrders = {}
    /\ AccountRest /\ OrderRest /\ BreakerRest /\ WalletRest
    /\ faults = 0 /\ started = 0

statusOthers == <<accountVars, orderVars, walletVars, sdkVars, commitReveals,
                  tradingAccounts, faults>>

\* TradePrivate.submitOrderPrivate accepts an order of the account: the
\* nullifier is marked used and the order is stored with its expiration block
LedgerSubmitOrderPrivate(nullifier, commitment) ==
    /\ started < MaxStatusSteps
    /\ nullifier \notin usedNullifiers
    /\ commitment \in tradingAccounts
    /\ started' = started + 1
    /\ usedNullifiers' = usedNullifiers \cup {nullifier}
    /\ privateOrders' =
          {o \in privateOrders : o.nullifier # nullifier} \cup
          {[ nullifier |-> nullifier,
             expirationBlock |-> blockNumber + ORDER_EXPIRATION ]}
    /\ UNCHANGED <<statusOthers, cin, cout, blockNumber>>

\* TradePrivate.executeBatch by a keeper: no order of the batch has expired;
\* the orders of the batch are deleted
LedgerExecuteBatch(nullifiers) ==
    /\ started < MaxStatusSteps
    /\ nullifiers # {}
    /\ \A n \in nullifiers : ~(LedgerExpirationBlock(n) < blockNumber)
    /\ started' = started + 1
    /\ privateOrders' = {o \in privateOrders : o.nullifier \notin nullifiers}
    /\ UNCHANGED <<statusOthers, cin, cout, blockNumber, usedNullifiers>>

\* the chain grows by k blocks
StatusAdvanceBlocks(k) ==
    /\ started < MaxStatusSteps
    /\ started' = started + 1
    /\ blockNumber' = blockNumber + k
    /\ UNCHANGED <<statusOthers, cin, cout, usedNullifiers, privateOrders>>

\* getOrderStatus(nullifier) is called and answers
GetOrderStatus(nullifier) ==
    /\ started < MaxStatusSteps
    /\ started' = started + 1
    /\ cin' = Some(nullifier)
    /\ cout' = Some([ fn |-> "getOrderStatus", result |-> getOrderStatus(nullifier) ])
    /\ UNCHANGED <<statusOthers, ledgerVars>>

NextOrderStatus ==
    \/ \E n \in StatusNullifiers, a \in StatusAccounts :
          LedgerSubmitOrderPrivate(n, a)
    \/ \E ns \in SUBSET StatusNullifiers : LedgerExecuteBatch(ns)
    \/ \E k \in {1, ORDER_EXPIRATION} : StatusAdvanceBlocks(k)
    \/ \E n \in StatusNullifiers : GetOrderStatus(n)

SpecOrderStatus == InitOrderStatus /\ [][NextOrderStatus]_vars

\* ---------------------------------------------------------------------------
\* CircuitBreaker (tradeprivate/secure.js): TradePrivateSDKSecure runs its
\* contract calls through one breaker built with the defaults.  execute is
\* async: a second execution can start while the function of the first is
\* still awaiting.
\* ---------------------------------------------------------------------------
MaxExecutions == 7
MaxTicks == 2

MsgBreakerOpen == "Circuit breaker is OPEN - service temporarily unavailable"

\* Date.now() - this.lastFailureTime >= this.timeout
timeoutElapsedInclusive(b, now) == now - The(b.lastFailureTime) >= timeout

\* Date.now() - this.lastFailureTime > this.timeout
timeoutElapsed(b, now) == now - The(b.lastFailureTime) > timeout

\* recordFailure(): count the failure, stamp it, open at the threshold
recordFailure(b, now) == [ failures |-> b.failures + 1, lastFailureTime |-> Some(now), state |-> IF b.failures + 1 >= threshold THEN "OPEN" ELSE b.state ]

\* reset()
reset(b) == [ failures |-> 0, lastFailureTime |-> None, state |-> "CLOSED" ]

\* the synchronous head of execute(fn): an OPEN breaker either moves to
\* HALF_OPEN or throws before fn is called
executeHead(b, now) ==
    IF b.state = "OPEN"
    THEN IF timeoutElapsed(b, now)
         THEN <<"ok", [b EXCEPT !.state = "HALF_OPEN"]>>
         ELSE <<"throws", MsgBreakerOpen>>
    ELSE <<"ok", b>>

InitBreaker ==
    /\ CryptoRest /\ LedgerRest /\ AccountRest /\ OrderRest /\ WalletRest
    /\ BreakerRest
    /\ faults = 0
    /\ started = 0

breakerOthers == <<cryptoVars, ledgerVars, accountVars, orderVars, walletVars, faults, started>>

\* execute(fn) is called on an OPEN breaker whose timeout has not elapsed:
\* it throws without calling fn
BreakerExecuteRejected(c) ==
    /\ breakerRun.calls[c] = "idle"
    /\ breakerRun.executions < MaxExecutions
    /\ executeHead(breaker, breakerRun.now)[1] = "throws"
    /\ breakerRun' = [breakerRun EXCEPT !.executions = @ + 1, !.last = [ kind |-> "rejected", stateBefore |-> breaker.state ]]
    /\ UNCHANGED <<breaker, breakerOthers>>

\* execute(fn) gets past the head and calls fn, which starts awaiting
BreakerExecuteInvokes(c) ==
    /\ breakerRun.calls[c] = "idle"
    /\ breakerRun.executions < MaxExecutions
    /\ executeHead(breaker, breakerRun.now)[1] = "ok"
    /\ breaker' = executeHead(breaker, breakerRun.now)[2]
    /\ breakerRun' = [breakerRun EXCEPT !.executions = @ + 1, !.invocations = @ + 1, !.calls[c] = "running", !.last = [ kind |-> "invoked", stateBefore |-> breaker.state ]]
    /\ UNCHANGED breakerOthers

\* fn resolves: a HALF_OPEN breaker is reset, any other is left as it is
BreakerExecuteSucceeds(c) ==
    /\ breakerRun.calls[c] = "running"
    /\ breaker' = IF breaker.state = "HALF_OPEN" THEN reset(breaker) ELSE breaker
    /\ breakerRun' = [breakerRun EXCEPT !.calls[c] = "idle", !.streak = 0, !.last = [ kind |-> "succeeded", stateBefore |-> breaker.state ]]
    /\ UNCHANGED breakerOthers

\* fn rejects: the catch block records the failure and rethrows
BreakerExecuteFails(c) ==
    /\ breakerRun.calls[c] = "running"
    /\ breaker' = recordFailure(breaker, breakerRun.now)
    /\ breakerRun' = [breakerRun EXCEPT !.calls[c] = "idle", !.streak = @ + 1, !.last = [ kind |-> "failed", stateBefore |-> breaker.state ]]
    /\ UNCHANGED breakerOthers

\* the clock moves on by a millisecond or by the whole timeout
BreakerTick(k) ==
    /\ breakerRun.ticks < MaxTicks
    /\ breakerRun' = [breakerRun EXCEPT !.now = @ + k, !.ticks = @ + 1]
    /\ UNCHANGED <<breaker, breakerOthers>>

NextBreaker ==
    \/ \E c \in BreakerSlots : BreakerExecuteRejected(c)
    \/ \E c \in BreakerSlots : BreakerExecuteInvokes(c)
    \/ \E c \in BreakerSlots : BreakerExecuteSucceeds(c)
    \/ \E c \in BreakerSlots : BreakerExecuteFails(c)
    \/ \E k \in {1, timeout} : BreakerTick(k)

SpecBreaker == InitBreaker /\ [][NextBreaker]_vars

Spec == SpecAccount

(* ------------------------------- claims ------------------------------- *)

\* C1: every attempt withRetry makes within one submitPrivateOrder call uses
\* the order nonce, order commitment and nullifier of the call's first attempt.
C1_RetryReusesFirstAttempt ==
    \A c \in Callers :
        orderCalls[c].made # None => orderCalls[c].made = orderCalls[c].first

\* C2: every revealTradingAccount transaction carries the commitment and the
\* nonce of a commit that createAccount submitted.
C2_RevealCarriesSubmittedCommit ==
    lastReveal # None =>
        \E s \in submittedCommits :
            /\ toHex(s.commitment) = The(lastReveal).commitment
            /\ s.nonce = The(lastReveal).nonce

\* C2 witness: a reveal sent on a retry, from a pending commit that
\* loadPendingCommit read back after a restart
C2_RevealAfterReloadOnRetry ==
    /\ lastReveal # None
    /\ The(lastReveal).loaded
    /\ The(lastReveal).attempt > 0

\* C3: two submitPrivateOrder calls in flight for the same order never hold
\* two different order nonces.
C3_ConcurrentCallsShareNonce ==
    \A c \in Callers, d \in Callers :
        ( /\ orderCalls[c].made # None /\ orderCalls[d].made # None
          /\ orderCalls[c].params = orderCalls[d].params )
        => The(orderCalls[c].made).orderNonce = The(orderCalls[d].made).orderNonce

\* C4: a revealTradingAccount transaction is sent only when the block height
\* revealAccount read is at least COMMIT_REVEAL_DELAY past the block of the
\* pending commit it reveals.
C4_RevealOnlyAfterDelay ==
    lastReveal # None =>
        The(lastReveal).currentBlock - The(lastReveal).commitBlock
            >= COMMIT_REVEAL_DELAY

\* C5: a reveal transaction is sent only when revealAccount was called with
\* the address createAccount used for the commit being revealed.
C5_RevealOnlyByCommitter ==
    lastReveal # None =>
        \E s \in submittedCommits :
            /\ toHex(s.commitment) = The(lastReveal).commitment
            /\ s.nonce = The(lastReveal).nonce
            /\ s.address = The(lastReveal).userAddress

\* the pending commit is in memory or can be read back by loadPendingCommit
Retrievable == pendingCommit # None \/ storedPendingCommit # None

\* the step of revealAccount that completes a successful reveal
RevealSucceeds ==
    /\ pendingCommit # None
    /\ accountCommitment' = Some(The(pendingCommit).commitment)
    /\ pendingCommit' = None

\* C6: a pending commit stops being retrievable only by a successful reveal
\* (the code has no cancel operation).
C6_PendingCommitRetained ==
    [][(Retrievable /\ ~Retrievable') => RevealSucceeds]_vars

\* C7: two distinct triples (privateKey, orderCommitment, nonce) never yield
\* the same order nullifier.
C7_DistinctTriplesDistinctNullifiers ==
    ( /\ cout # None
      /\ The(cout).fn = "orderNullifier"
      /\ <<cin.a.privateKey, cin.a.orderCommitment, cin.a.nonce>>
            # <<cin.b.privateKey, cin.b.orderCommitment, cin.b.nonce>> )
    => The(cout).a # The(cout).b

\* C8: submitPrivateOrder goes on past the nullifier check, towards the
\* submission of the order, only when the ledger's usedNullifiers(nullifier)
\* returned false.
C8_SubmitOnlyAfterLedgerSaidUnused ==
    \A c \in Callers :
        orderCalls[c].pc \in {"keeper", "encrypt", "submit", "waiting"}
            => orderCalls[c].ledgerAnswer = "false"

C10_CommitmentsBinding ==
    /\ ( /\ cout # None
         /\ The(cout).fn = "accountCommitment"
         /\ <<cin.a.privateKey, cin.a.nonce>> # <<cin.b.privateKey, cin.b.nonce>> )
       => The(cout).a # The(cout).b
    /\ ( /\ cout # None
         /\ The(cout).fn = "orderCommitment"
         /\ <<cin.a.orderData, cin.a.nonce>> # <<cin.b.orderData, cin.b.nonce>> )
       => The(cout).a # The(cout).b

\* the errors the specification names for a malformed commit-hash input
InvalidAddress == <<"InvalidAddress">>
InvalidFieldElement == <<"InvalidFieldElement">>

\* C11: generateCommitHash hashes commitment || nonce || address at their
\* fixed widths, the ledger's abi.encodePacked(commitment, nonce, msg.sender),
\* and rejects an address that is not of address length (InvalidAddress) and a
\* nonce beyond its 32-byte range (InvalidFieldElement).
C11_CommitHashPacksOrRejects ==
    (cout # None /\ The(cout).fn = "commitHash") =>
        IF Len(cin.address) # AddrHexLen
        THEN The(cout).a = InvalidAddress
        ELSE IF cin.nonce >= Pow16(HexWidth)
        THEN The(cout).a = InvalidFieldElement
        ELSE The(cout).a = LedgerCommitHash(toHex(cin.commitment), cin.nonce,
                                            cin.address)

\* the sampled positions of a keeper list, and the eligible ones among them
SampledKeepers(keepers) == 1..Min(KeeperSampleLimit, Len(keepers))
EligibleKeepers(keepers) ==
    {i \in SampledKeepers(keepers) : keepers[i].isActive /\ ~keepers[i].isSlashed}

\* C12: when a sampled keeper is active and not slashed, the result is the key
\* of an eligible keeper of maximal score, the earliest listed one among
\* those; a no-keeper error is returned only when no sampled keeper is eligible.
C12_BestEligibleKeeperSelected ==
    (cout # None /\ The(cout).fn = "keeper") =>
        IF EligibleKeepers(cin) = {}
        THEN The(cout).a[1] = "error"
        ELSE /\ The(cout).a[1] = "key"
             /\ The(cout).a[2] \in EligibleKeepers(cin)
             /\ \A j \in EligibleKeepers(cin) :
                  /\ ~scoreGreater(keeperScore(cin[j]),
                                   keeperScore(cin[The(cout).a[2]]))
                  /\ j < The(cout).a[2] =>
                       scoreGreater(keeperScore(cin[The(cout).a[2]]),
                                    keeperScore(cin[j]))


\* C13: the encryption stage of a valid order yields an encrypted order that
\* passes the client's size check and is exactly the 512 bytes the ledger
\* requires.
C13_EncryptedOrderIsLedgerSize ==
    \A c \in Callers :
        orderCalls[c].encrypted # None =>
            /\ The(orderCalls[c].encrypted)[1] = "bytes"
            /\ The(orderCalls[c].encrypted)[2] = ENCRYPTED_ORDER_SIZE
            /\ The(orderCalls[c].encrypted)[2] = LedgerEncryptedOrderSize

\* C14: with an active account, valid parameters, an eligible keeper, no
\* nullifier used and no failure of the ledger, a submitPrivateOrder call does
\* not end before it has called submitOrderPrivate and recorded the order in
\* pendingOrders under its nullifier.
C14_OrderReachesSubmission ==
    \A c \in Callers :
        ( /\ orderCalls[c].pc \in {"returned", "thrown"}
          /\ faults = 0 /\ usedNullifiers = {} )
        => /\ orderCalls[c].pc = "returned"
           /\ The(orderCalls[c].made).nullifier \in submitCalls
           /\ The(orderCalls[c].made).nullifier \in pendingOrders

\* C15: createAccount, revealAccount or withdraw called with a malformed
\* address fails with a ValidationError on its first attempt: the call that
\* has thrown carries the validation error and made no second attempt.
C15_MalformedAddressFailsFast ==
    \A c \in AccountSlots :
        ( /\ accountCalls[c].pc = "thrown"
          /\ MalformedAddress(accountCalls[c].userAddress) )
        => /\ accountCalls[c].error = MsgValidationFailed
           /\ accountCalls[c].i = 0

\* C16: a call of saveAccountInfo, saveOrderHistory or saveToSecureStorage
\* whose write to IndexedDB failed has raised an error and has left
\* sessionStorage as it was.
C16_StorageFailureIsFatal ==
    ( /\ walletCall.name \in {"saveAccountInfo", "saveOrderHistory",
                              "saveToSecureStorage",
                              "saveToSecureStorageLegacy"}
      /\ walletCall.putFailed )
    => /\ walletCall.outcome[1] = "thrown"
       /\ session = walletCall.sessionBefore

\* the seed record and the metadata in IndexedDB are both as they were before
\* the call
WalletRecordUntouched ==
    /\ idb.seed = walletCall.before.idb.seed
    /\ idb.metadata = walletCall.before.idb.metadata

\* the seed record and the metadata in IndexedDB are both those of the call
WalletRecordReplaced ==
    /\ idb.seed # None /\ The(idb.seed).timestamp = walletCall.now
    /\ idb.metadata # None /\ The(idb.metadata).timestamp = walletCall.now

\* C17: after a call of generateHDWallet or restoreHDWallet, whether it
\* completed or failed after any of its steps, the persisted wallet record
\* (encrypted seed and metadata) is entirely the one from before the call or
\* entirely the new one.
C17_WalletPersistenceAtomic ==
    walletCall.name \in {"generateHDWallet", "restoreHDWallet"}
        => WalletRecordUntouched \/ WalletRecordReplaced

\* C18: after a call of migrateToHD that failed, the key manager's privateKey,
\* tradingPublicKey, encryptionKeys, accountIndex and isHDMode are those from
\* before the call.
C18_FailedMigrationRestoresLegacy ==
    ( /\ walletCall.name = "migrateToHD"
      /\ walletCall.outcome[1] = "thrown" )
    => /\ privateKey = walletCall.before.privateKey
       /\ km = walletCall.before.km

\* a loadFromStorage call on a stored seed with a password other than the one
\* the seed was saved with
WrongPasswordLoad ==
    /\ walletCall.name = "loadFromStorage"
    /\ walletCall.before.idb.seed # None
    /\ walletCall.before.saved # None
    /\ walletCall.password # The(walletCall.before.saved).password

\* C19: loadFromStorage with a wrong password fails with the error 'Invalid
\* password or corrupted data' and leaves the wallet's seed, master key,
\* accounts and initialized flag as they were.
C19_WrongPasswordRejected ==
    WrongPasswordLoad
        => /\ walletCall.outcome[1] = "thrown"
           /\ walletCall.outcome[2] = "Invalid password or corrupted data"
           /\ hd = walletCall.before.hd

\* C19 witness: a wrong password was rejected by a wallet that holds a seed
C19_WrongPasswordOnLoadedWallet ==
    /\ WrongPasswordLoad
    /\ walletCall.outcome[1] = "thrown"
    /\ hd.initialized /\ hd.seed # None

\* a loadFromStorage call with the password of the latest completed
\* saveToStorage
SamePasswordLoad ==
    /\ walletCall.name = "loadFromStorage"
    /\ walletCall.before.saved # None
    /\ walletCall.password = The(walletCall.before.saved).password

\* C20: loadFromStorage with the password of the preceding saveToStorage
\* returns true, restores the seed that was saved (equal seed hash) and leaves
\* the wallet initialized.
C20_SaveLoadRoundTrip ==
    SamePasswordLoad
        => /\ walletCall.outcome[1] = "returned"
           /\ walletCall.outcome[2] = "true"
           /\ hd.seed = Some(The(walletCall.before.saved).seed)
           /\ getSeedHash(The(hd.seed))
                 = getSeedHash(The(walletCall.before.saved).seed)
           /\ hd.initialized

\* C20 witness: a fresh instance restored the saved seed
C20_FreshInstanceRestored ==
    /\ SamePasswordLoad
    /\ walletCall.before.hd = NewHDWallet
    /\ hd.initialized
    /\ hd.seed = Some(The(saved).seed)


\* the bits a phrase of listed words stands for: eleven a word, the word's
\* place in the list, high bit first
MnemonicBits(mnemonic) ==
    [k \in 1..(11 * Len(mnemonic)) |->
        (WordIndex(mnemonic[((k - 1) \div 11) + 1])
            \div (2 ^ (10 - ((k - 1) % 11)))) % 2]

\* the bytes of a bit string whose length is a multiple of eight
BytesOfBits(bits) ==
    [i \in 1..(Len(bits) \div 8) |->
        FromDigits(SubSeq(bits, 8 * (i - 1) + 1, 8 * i), 2)]

WrongWordCount(mnemonic) == Len(mnemonic) \notin MnemonicLengths

UnlistedWord(mnemonic) ==
    \E k \in 1..Len(mnemonic) : WordIndex(mnemonic[k]) < 0

\* the phrase's last bits (one for every three words) are not the checksum
\* of the bits before them
WrongChecksum(mnemonic) ==
    /\ ~WrongWordCount(mnemonic) /\ ~UnlistedWord(mnemonic)
    /\ LET bits == MnemonicBits(mnemonic)
           sumBits == Len(mnemonic) \div 3
           entropy == BytesOfBits(SubSeq(bits, 1, Len(bits) - sumBits))
       IN  SubSeq(bits, Len(bits) - sumBits + 1, Len(bits))
               # calculateChecksum(entropy, sumBits)

\* C21: restoreFromMnemonic rejects a phrase with a wrong word count, with
\* a word that is not listed, or with a wrong checksum, by the
\* invalid-mnemonic error, and leaves seed, master key and initialized as
\* they were
C21_InvalidMnemonicRejected ==
    ( /\ walletCall.name = "restoreFromMnemonic"
      /\ \/ WrongWordCount(walletCall.args.mnemonic)
         \/ UnlistedWord(walletCall.args.mnemonic)
         \/ WrongChecksum(walletCall.args.mnemonic) )
    => /\ walletCall.outcome[1] = "thrown"
       /\ walletCall.outcome[2] = "Invalid mnemonic phrase"
       /\ hd.seed = walletCall.before.hd.seed
       /\ hd.masterKey = walletCall.before.hd.masterKey
       /\ hd.initialized = walletCall.before.hd.initialized


\* C22: after any sequence of completed generate, restore, save, load,
\* derive and destroy calls, initialized is true exactly when seed and master
\* key are both present, deriveAccount succeeds only on an initialized
\* wallet, and getTradingKeys(i) succeeds only if deriveAccount(i) has
\* succeeded in this wallet since it was last cleared
C22_WalletLifecycle ==
    /\ hd.initialized <=> (hd.seed # None /\ hd.masterKey # None)
    /\ ( walletCall.name = "deriveAccount"
         /\ walletCall.outcome[1] = "returned" )
       => walletCall.before.hd.initialized
    /\ ( walletCall.name = "getTradingKeys"
         /\ walletCall.outcome[1] = "returned" )
       => walletCall.args.accountIndex \in hdLog.sinceDestroy

\* trading keys handed out by an initialized wallet with a derived account
C22_TradingKeysHandedOut ==
    /\ walletCall.name = "getTradingKeys"
    /\ walletCall.outcome[1] = "returned"
    /\ hd.initialized
    /\ \E a \in hd.accounts : a.index = walletCall.args.accountIndex


\* C23: the key handed out is a function of seed and path only: every key
\* derived for the same seed, account and address index is the same, whether
\* by deriveAccount (address index 0) or by deriveAddresses, in whichever
\* call and wallet instance
C23_KeyIsFunctionOfSeedAndPath ==
    \A x, y \in hdLog.derived :
        (x.seed = y.seed /\ x.account = y.account /\ x.index = y.index)
            => x.privateKey = y.privateKey

\* deriveAccount(i) and deriveAddresses(i, n) have both answered for one seed
C23_BothDerivationsSeen ==
    \E x, y \in hdLog.derived :
        /\ x.by = "deriveAccount" /\ y.by = "deriveAddresses"
        /\ x.seed = y.seed /\ x.account = y.account /\ y.index = 0


\* C24: decrypting with the keeper's private key what the encryption
\* produced for the keeper's public key returns the original order
C24_EncryptDecryptRoundTrip ==
    (cout # None /\ The(cout).fn = "encrypt")
        => /\ The(cout).first[1] = "returned"
           /\ LET back == decryptOrderForKeeper(The(cout).first[2],
                                                BigIntValue(cin.keeper), 2)
              IN  /\ back[1] = "returned"
                  /\ back[2].orderData = cin.order

\* the decryption was tried with another key or on an altered order
FailsAuthentication == cin.with # cin.keeper \/ cin.tamper # "none"

\* C25: decryption with a wrong private key or of an order whose ciphertext,
\* iv, tag or hash was altered raises an error and returns no order data
C25_NoPlaintextWithoutAuthentication ==
    (cout # None /\ The(cout).fn = "decrypt" /\ FailsAuthentication)
        => The(cout).a[1] = "thrown"

\* a decryption with a wrong key of an order with an altered tag has ended
C25_TamperedOrderTried ==
    /\ cout # None /\ The(cout).fn = "decrypt"
    /\ cin.with # cin.keeper /\ cin.tamper = "authTag"
    /\ The(cout).a[1] = "thrown"

\* C26: each encryption draws a fresh ephemeral key pair for the shared
\* secret: two encryptions by one sender for one keeper do not work with the
\* same shared secret, and both return an ephemeral public key that differs
\* between them and is not the public key of the sender's private key
C26_FreshEphemeralKey ==
    (cout # None /\ The(cout).fn = "encrypt")
        => /\ The(cout).sharedSecret # The(cout).sharedSecretAgain
           /\ The(cout).first[1] = "returned"
           /\ The(cout).second[1] = "returned"
           /\ The(cout).first[2].ephemeralPublicKey
                # The(cout).second[2].ephemeralPublicKey
           /\ The(cout).first[2].ephemeralPublicKey
                # encDerivePublicKey(BigIntValue(cin.user))


\* C27: every value a constructor or an operator yields lies in [0, p)
C27_FieldElementInRange ==
    cout # None /\ The(cout).fn \in {"construct", "arithmetic", "inverse"}
        => \A v \in The(cout).results : 0 <= v /\ v < FIELD_SIZE

\* operands from outside the field, and a difference that had to be lifted
C27_NegativeDifferenceLifted ==
    /\ cout # None /\ The(cout).fn = "arithmetic"
    /\ cin.a < 0 /\ cin.b > FIELD_SIZE
    /\ The(cout).x < The(cout).y
    /\ The(cout).x - The(cout).y + FIELD_SIZE \in The(cout).results

\* C28: inv() of the zero element raises an error and returns no field
\* element
C28_InverseOfZeroRaises ==
    (cout # None /\ The(cout).fn = "inverse" /\ The(cout).x = 0)
        => The(cout).inverse \notin 0..(FIELD_SIZE - 1)

\* C29: for every nonzero element x, inv(x).mul(x) is 1
C29_InverseTimesElementIsOne ==
    (cout # None /\ The(cout).fn = "inverse" /\ The(cout).x # 0)
        => The(cout).inverseTimesX = 1

\* the inverse of an element other than 0 and 1 was taken
C29_InverseTaken ==
    /\ cout # None /\ The(cout).fn = "inverse"
    /\ The(cout).x > 1 /\ The(cout).inverse > 1

\* C30: a.add(b) is (a + b) mod p, a.mul(b) is (a * b) mod p, and the
\* operands are as before
C30_AddMulMatchReference ==
    (cout # None /\ The(cout).fn = "arithmetic")
        => /\ The(cout).sum = (The(cout).x + The(cout).y) % FIELD_SIZE
           /\ The(cout).product = (The(cout).x * The(cout).y) % FIELD_SIZE
           /\ The(cout).xAfter = FieldElement(cin.a)
           /\ The(cout).yAfter = FieldElement(cin.b)

\* a sum and a product that both wrapped around
C30_SumAndProductWrapped ==
    /\ cout # None /\ The(cout).fn = "arithmetic"
    /\ The(cout).x + The(cout).y >= FIELD_SIZE
    /\ The(cout).x * The(cout).y >= FIELD_SIZE
    /\ The(cout).sum < The(cout).x


WellFormedNullifier(n) == validateNullifier(n)[1] = "ok"

\* two entries of the list denote the same value below the field size
SameNullifierTwice(list) ==
    \E i, j \in 1..Len(list) :
        /\ i < j
        /\ WellFormedNullifier(list[i]) /\ WellFormedNullifier(list[j])
        /\ BigIntOfHexString(list[i]) = BigIntOfHexString(list[j])

\* C32: validateNullifiers accepts a list only if every entry is a well-formed
\* nullifier below the field size and no two entries denote the same value; a
\* list of well-formed entries two of which denote the same value is rejected
\* with the duplicate-nullifier error.
C32_DuplicateNullifiersRejected ==
    (cout # None /\ The(cout).fn = "validateNullifiers") =>
        LET result == The(cout).result
        IN  /\ result[1] = "ok" =>
                /\ \A i \in 1..Len(cin) : WellFormedNullifier(cin[i])
                /\ ~SameNullifierTwice(cin)
            /\ ((\A i \in 1..Len(cin) : WellFormedNullifier(cin[i]))
                   /\ SameNullifierTwice(cin)) =>
                (result[1] = "throws" /\ result[2] = MsgDuplicateNullifiers)


\* no createAccount or revealAccount call is under way
AccountCallsFinished ==
    \A c \in AccountSlots : accountCalls[c].pc \in {"idle", "returned", "thrown"}

\* C33: once the createAccount calls have finished, every commit the ledger
\* holds is the one whose commitment and nonce are kept in pendingCommit, for
\* a client that keeps a pending commit at all.
C33_AcceptedCommitsHeld ==
    (AccountCallsFinished /\ pendingCommit # None) =>
        \A cr \in commitReveals :
            cr.commitHash = The(pendingCommit).commitHash


\* C34: when a revealAccount call finishes, returned or thrown, and the ledger
\* has accepted revealTradingAccount for the pending commit, the manager is
\* active: accountCommitment and accountNonce are the revealed values and
\* pendingCommit is cleared in memory and in storage.
C34_ClientActiveAfterAcceptedReveal ==
    [][\A c \in AccountSlots :
         ( /\ accountCalls[c].op = "reveal"
           /\ accountCalls[c].pc \notin {"idle", "returned", "thrown"}
           /\ accountCalls'[c].pc \in {"returned", "thrown"}
           /\ pendingCommit # None
           /\ toHex(The(pendingCommit).commitment) \in tradingAccounts' )
         => ( /\ accountCommitment' = Some(The(pendingCommit).commitment)
              /\ accountNonce' = Some(The(pendingCommit).nonce)
              /\ pendingCommit' = None
              /\ storedPendingCommit' = None )]_vars


\* withRetry has returned or thrown
RetryDone == cout # None /\ The(cout).pc \in {"returned", "thrown"}

\* the counts, the stopping points and the waits of a withRetry call
RetryWithinBounds ==
    cout # None =>
        LET loop == The(cout)
            rejected(k) ==
                /\ cin.outcomes[k] # None
                /\ ~shouldRetry(cin.shouldRetry, The(cin.outcomes[k]))
        IN  /\ loop.calls <= maxRetries + 1
            /\ \A k \in 1..(loop.calls - 1) :
                   cin.outcomes[k] # None /\ ~rejected(k)
            /\ loop.pc = "returned" => cin.outcomes[loop.calls] = None
            /\ loop.pc = "thrown" =>
                   /\ loop.lastError = cin.outcomes[loop.calls]
                   /\ rejected(loop.calls) \/ loop.calls = maxRetries + 1
                   /\ Len(loop.waits) = loop.calls - 1
            /\ loop.pc = "wait" => ~rejected(loop.calls)
            /\ Len(loop.waits) <= maxRetries
            /\ \A k \in 1..Len(loop.waits) :
                   /\ loop.waits[k] <= cin.delays.maxDelay
                   /\ k = 1 => loop.waits[k] = cin.delays.initialDelay
                   /\ k > 1 => loop.waits[k] =
                          Min(loop.waits[k - 1] * cin.delays.backoffFactor,
                              cin.delays.maxDelay)

C36_AcceptedOrderReportedPending ==
    [][\A n \in StatusNullifiers :
         ( /\ cin' = Some(n) /\ started' = started + 1 /\ UNCHANGED ledgerVars
           /\ n \in usedNullifiers
           /\ \E o \in privateOrders :
                 o.nullifier = n /\ o.expirationBlock >= blockNumber )
         => ( /\ The(cout').result.pending
              /\ ~The(cout').result.executed
              /\ ~The(cout').result.expired )]_vars


\* C37: when initialize, generateHDWallet, restoreHDWallet or switchAccount
\* has completed and the key manager is in HD mode, a trading private key is
\* loaded and it is the HD wallet's key of the current accountIndex.
C37_HDModeHasKey ==
    ( /\ walletCall.name \in {"initialize", "generateHDWallet",
                              "restoreHDWallet", "switchAccount"}
      /\ walletCall.outcome[1] = "returned"
      /\ km.isHDMode )
    => ( /\ privateKey # None
         /\ \E a \in hd.accounts :
               a.index = km.accountIndex /\ Some(a.privateKey) = privateKey )

\* C38: a loadFromSecureStorage that finds the record saveToSecureStorage
\* wrote decrypts it and restores the privateKey and tradingPublicKey of
\* that record.
C38_LegacyKeysReadBack ==
    ( /\ walletCall.name = "loadFromSecureStorage"
      /\ walletCall.before.idb.keys # None )
    => LET data == The(walletCall.before.idb.keys).encrypted[4]
       IN  /\ walletCall.outcome[1] = "returned"
           /\ walletCall.outcome[2] = "true"
           /\ privateKey = Some(fromHex(data.privateKey))
           /\ km.tradingPublicKey = Some(data.tradingPublicKey)

\* C39: the breaker opens only after `threshold` consecutive failed
\* executions: whenever it is OPEN, the executions that ended most recently
\* include at least `threshold` failures in a row with no success among them.
C39_OpensOnlyOnConsecutiveFailures ==
    breaker.state = "OPEN" => breakerRun.streak >= threshold

=========================================================================
